---------------------------- MODULE Spec2Model ----------------------------
(***************************************************************************)
(* Model of the log normalization, search/filter and analytics engine of   *)
(* kibana-log-analyzer (LogParserService, SearchService, AnalyticsService).*)
(*                                                                         *)
(* Strings are sequences of one-character strings, so that trimming,       *)
(* splitting, case conversion, JSON parsing and date parsing are computed  *)
(* on the characters as the code (and the JavaScript runtime) computes     *)
(* them.  JavaScript values are tagged records (see Value).                *)
(***************************************************************************)
EXTENDS Integers, Sequences, FiniteSets, TLC

VARIABLES
    logs,          \* LogParserService._logs      : sequence of LogEntry
    isLoading,     \* LogParserService._isLoading : BOOLEAN
    error,         \* LogParserService._error     : string or Null
    lastCall,      \* history: the most recent call of the parser service, its
                   \* arguments, and whether its try block threw
    frame,         \* the call of unescapeString or detectContentType under
                   \* way or last made: its argument, the activation reached,
                   \* and its outcome
    searchQuery,   \* SearchService._searchQuery  : string
    isRegex,       \* SearchService._isRegex      : BOOLEAN
    caseSensitive, \* SearchService._caseSensitive: BOOLEAN
    quickFilters,  \* SearchService._quickFilters : sequence of SearchFilter
    timeRange,     \* SearchService._timeRange    : [start, end], Date or Null
    tableView,     \* App.filteredLogs (computed signal): whether it holds a
                   \* value, what its last evaluation read, and the signals
                   \* that evaluation depends on
    analyticsView, \* AnalyticsService.filteredLogs (computed signal): the same
    pending,       \* the file reads and fetches under way: a set of
                   \* [seq, kind, content]
    requested,     \* history: the most recent load or clear the user asked
                   \* for: [seq, op, content]
    cleared        \* history: whether the most recent call on the search
                   \* service was clearAll, and what held before that call

parserVars == <<logs, isLoading, error, lastCall, frame>>
searchVars == <<searchQuery, isRegex, caseSensitive, quickFilters, timeRange>>
viewVars == <<tableView, analyticsView>>
loadVars == <<pending, requested>>
appVars == <<tableView, analyticsView, pending, requested>>
vars == <<logs, isLoading, error, lastCall, frame,
          searchQuery, isRegex, caseSensitive, quickFilters, timeRange,
          tableView, analyticsView, pending, requested, cleared>>

-----------------------------------------------------------------------------
(* JavaScript values                                                       *)

\* Every value carries every field, so that two values of different types
\* compare unequal on the tag while the evaluator only ever compares fields
\* of the same kind: s a string, n a number, b a boolean, a the elements of an
\* array, o the own enumerable properties of a plain object in insertion order.
Value(t, s, n, b, a, o) == [t |-> t, s |-> s, n |-> n, b |-> b, a |-> a, o |-> o]
Undefined == Value("undef", <<>>, 0, FALSE, <<>>, <<>>)
Null      == Value("null", <<>>, 0, FALSE, <<>>, <<>>)
Str(s)    == Value("str", s, 0, FALSE, <<>>, <<>>)
Num(n)    == Value("num", <<>>, n, FALSE, <<>>, <<>>)
Bool(b)   == Value("bool", <<>>, 0, b, <<>>, <<>>)
Arr(a)    == Value("arr", <<>>, 0, FALSE, a, <<>>)
Obj(ps)   == Value("obj", <<>>, 0, FALSE, <<>>, ps)
Prop(k, x) == [k |-> k, v |-> x]

\* ToBoolean
Truthy(x) ==
    CASE x.t = "undef" -> FALSE
      [] x.t = "null"  -> FALSE
      [] x.t = "str"   -> x.s # <<>>
      [] x.t = "num"   -> x.n # 0
      [] x.t = "bool"  -> x.b
      [] OTHER         -> TRUE

-----------------------------------------------------------------------------
(* String primitives of the runtime                                        *)

LowerCaseLetters == <<"a","b","c","d","e","f","g","h","i","j","k","l","m",
                      "n","o","p","q","r","s","t","u","v","w","x","y","z">>
UpperCaseLetters == <<"A","B","C","D","E","F","G","H","I","J","K","L","M",
                      "N","O","P","Q","R","S","T","U","V","W","X","Y","Z">>
Digits == <<"0","1","2","3","4","5","6","7","8","9">>

IndexIn(c, tbl) == IF \E i \in DOMAIN tbl : tbl[i] = c
                   THEN CHOOSE i \in DOMAIN tbl : tbl[i] = c
                   ELSE 0

UpperChar(c) == LET i == IndexIn(c, LowerCaseLetters)
                IN  IF i = 0 THEN c ELSE UpperCaseLetters[i]
LowerChar(c) == LET i == IndexIn(c, UpperCaseLetters)
                IN  IF i = 0 THEN c ELSE LowerCaseLetters[i]

toUpperCase(s) == [i \in DOMAIN s |-> UpperChar(s[i])]
toLowerCase(s) == [i \in DOMAIN s |-> LowerChar(s[i])]

IsDigit(c) == IndexIn(c, Digits) # 0
DigitVal(c) == IndexIn(c, Digits) - 1
IsWordChar(c) == \/ IndexIn(c, LowerCaseLetters) # 0
                 \/ IndexIn(c, UpperCaseLetters) # 0
                 \/ IsDigit(c)
                 \/ c = "_"
IsSpace(c) == c \in {" ", "\n", "\t", "\r"}

\* s.slice(i - 1): the suffix from position i (1-based)
From(s, i) == SubSeq(s, i, Len(s))

startsWith(s, p) == Len(p) <= Len(s) /\ SubSeq(s, 1, Len(p)) = p
endsWith(s, p) == Len(p) <= Len(s) /\ SubSeq(s, Len(s) - Len(p) + 1, Len(s)) = p
includes(s, p) == \E i \in 1..(Len(s) - Len(p) + 1) : SubSeq(s, i, i + Len(p) - 1) = p

trim(s) ==
    IF \A i \in DOMAIN s : IsSpace(s[i]) THEN <<>>
    ELSE LET a == CHOOSE i \in DOMAIN s :
                      ~IsSpace(s[i]) /\ \A j \in 1..(i - 1) : IsSpace(s[j])
             b == CHOOSE i \in DOMAIN s :
                      ~IsSpace(s[i]) /\ \A j \in (i + 1)..Len(s) : IsSpace(s[j])
         IN  SubSeq(s, a, b)

\* s.split('\n')
RECURSIVE splitLines(_)
splitLines(s) ==
    IF \A i \in DOMAIN s : s[i] # "\n" THEN <<s>>
    ELSE LET n == CHOOSE i \in DOMAIN s :
                      s[i] = "\n" /\ \A j \in 1..(i - 1) : s[j] # "\n"
         IN  <<SubSeq(s, 1, n - 1)>> \o splitLines(From(s, n + 1))

\* String(n) for an integer n
RECURSIVE NatToString(_)
NatToString(n) == IF n < 10 THEN <<Digits[n + 1]>>
                  ELSE NatToString(n \div 10) \o <<Digits[(n % 10) + 1]>>
NumToString(n) == IF n < 0 THEN <<"-">> \o NatToString(-n) ELSE NatToString(n)

\* the value of a non-empty run of decimal digits
RECURSIVE DigitsToNat(_)
DigitsToNat(s) == IF s = <<>> THEN 0
                  ELSE 10 * DigitsToNat(SubSeq(s, 1, Len(s) - 1)) + DigitVal(s[Len(s)])

-----------------------------------------------------------------------------
(* JSON.parse on the character sequence.  The grammar covered: objects,    *)
(* arrays, strings with the escapes \" \\ \/ \n \t \r, integers, and the   *)
(* literals null, true, false, with white space between tokens.            *)

ParseFail == [ok |-> FALSE, v |-> Undefined, next |-> 0]
ParseOk(x, n) == [ok |-> TRUE, v |-> x, next |-> n]

\* the first position >= i that holds no white space (Len(s) + 1 if none)
RECURSIVE SkipWs(_, _)
SkipWs(s, i) == IF i <= Len(s) /\ IsSpace(s[i]) THEN SkipWs(s, i + 1) ELSE i

\* the end of the run of digits starting at i (i - 1 if there is none)
RECURSIVE DigitRunEnd(_, _)
DigitRunEnd(s, i) == IF i <= Len(s) /\ IsDigit(s[i]) THEN DigitRunEnd(s, i + 1) ELSE i - 1

\* an integer index as a property key ("0", "17"): such keys are enumerated
\* first, in ascending order, whenever they were defined
IsIndexKey(k) ==
    /\ k # <<>>
    /\ \A i \in DOMAIN k : IsDigit(k[i])
    /\ (Len(k) = 1 \/ k[1] # "0")

\* defining a property: an existing key keeps its position and takes the new
\* value, a new index key goes after the smaller index keys, any other new
\* key goes last
PutProp(ps, k, x) ==
    IF \E i \in DOMAIN ps : ps[i].k = k
    THEN [i \in DOMAIN ps |-> IF ps[i].k = k THEN Prop(k, x) ELSE ps[i]]
    ELSE IF IsIndexKey(k)
    THEN LET before == Cardinality({i \in DOMAIN ps :
                           IsIndexKey(ps[i].k) /\ DigitsToNat(ps[i].k) < DigitsToNat(k)})
         IN  SubSeq(ps, 1, before) \o <<Prop(k, x)>> \o SubSeq(ps, before + 1, Len(ps))
    ELSE Append(ps, Prop(k, x))

Unescape1(c) ==
    CASE c = "n" -> "\n"
      [] c = "t" -> "\t"
      [] c = "r" -> "\r"
      [] OTHER   -> c

\* the character at j, read from position i on, follows an odd number of
\* backslashes: it is the second character of an escape
Escaped(s, i, j) ==
    /\ j > i
    /\ s[j - 1] = "\\"
    /\ LET stops == {k \in i .. j - 1 : s[k] # "\\"}
           run   == IF stops = {} THEN j - i
                    ELSE j - 1 - (CHOOSE m \in stops : \A k \in stops : k <= m)
       IN  run % 2 = 1

\* the string literal whose opening quote precedes position i: it ends at the
\* first quote that no backslash escapes; a raw line break or tab and an
\* escape other than \" \\ \/ \n \t \r are syntax errors
ScanString(s, i) ==
    LET closing == {j \in i .. Len(s) : s[j] = "\"" /\ ~Escaped(s, i, j)}
        Starts(k) == s[k] = "\\" /\ ~Escaped(s, i, k)
        Scan(e) ==
            LET bad  == {k \in i .. e - 1 :
                            \/ s[k] \in {"\n", "\t", "\r"}
                            \/ Starts(k) /\ s[k + 1] \notin {"\"", "\\", "/", "n", "t", "r"}}
                kept == SelectSeq([n \in 1 .. e - i |-> i + n - 1], LAMBDA k : ~Starts(k))
            IN  IF bad # {} THEN ParseFail
                ELSE ParseOk(Str([n \in DOMAIN kept |->
                                     IF Escaped(s, i, kept[n]) THEN Unescape1(s[kept[n]])
                                     ELSE s[kept[n]]]), e + 1)
    IN  IF closing = {} THEN ParseFail
        ELSE Scan(CHOOSE e \in closing : \A j \in closing : e <= j)

ScanNumber(s, i) ==
    LET neg == s[i] = "-"
        d   == IF neg THEN i + 1 ELSE i
        e   == DigitRunEnd(s, d)
    IN  IF e < d \/ (e > d /\ s[d] = "0") THEN ParseFail
        ELSE IF e < Len(s) /\ s[e + 1] \in {".", "e", "E"} THEN ParseFail
        ELSE ParseOk(Num(IF neg THEN -DigitsToNat(SubSeq(s, d, e))
                                ELSE DigitsToNat(SubSeq(s, d, e))), e + 1)

RECURSIVE ParseValue(_, _)
RECURSIVE ParseMembers(_, _, _, _)
RECURSIVE ParseElements(_, _, _, _)

\* members of an object; i is past the brace or the comma, white space skipped
ParseMembers(s, i, acc, first) ==
    IF i > Len(s) THEN ParseFail
    ELSE IF s[i] = "}" THEN (IF first THEN ParseOk(Obj(acc), i + 1) ELSE ParseFail)
    ELSE IF s[i] # "\"" THEN ParseFail
    ELSE LET key == ScanString(s, i + 1)
         IN  IF ~key.ok THEN ParseFail
             ELSE LET c == SkipWs(s, key.next)
                  IN  IF c > Len(s) \/ s[c] # ":" THEN ParseFail
                      ELSE LET val == ParseValue(s, c + 1)
                           IN  IF ~val.ok THEN ParseFail
                               ELSE LET e   == SkipWs(s, val.next)
                                        ps  == PutProp(acc, key.v.s, val.v)
                                    IN  IF e > Len(s) THEN ParseFail
                                        ELSE IF s[e] = "}" THEN ParseOk(Obj(ps), e + 1)
                                        ELSE IF s[e] = ","
                                             THEN ParseMembers(s, SkipWs(s, e + 1), ps, FALSE)
                                        ELSE ParseFail

\* elements of an array; i is past the bracket or the comma, white space skipped
ParseElements(s, i, acc, first) ==
    IF i > Len(s) THEN ParseFail
    ELSE IF s[i] = "]" THEN (IF first THEN ParseOk(Arr(acc), i + 1) ELSE ParseFail)
    ELSE LET val == ParseValue(s, i)
         IN  IF ~val.ok THEN ParseFail
             ELSE LET e  == SkipWs(s, val.next)
                      xs == Append(acc, val.v)
                  IN  IF e > Len(s) THEN ParseFail
                      ELSE IF s[e] = "]" THEN ParseOk(Arr(xs), e + 1)
                      ELSE IF s[e] = ","
                           THEN ParseElements(s, SkipWs(s, e + 1), xs, FALSE)
                      ELSE ParseFail

ParseValue(s, i0) ==
    LET i == SkipWs(s, i0)
    IN  IF i > Len(s) THEN ParseFail
        ELSE IF s[i] = "{" THEN ParseMembers(s, SkipWs(s, i + 1), <<>>, TRUE)
        ELSE IF s[i] = "[" THEN ParseElements(s, SkipWs(s, i + 1), <<>>, TRUE)
        ELSE IF s[i] = "\"" THEN ScanString(s, i + 1)
        ELSE IF s[i] = "-" \/ IsDigit(s[i]) THEN ScanNumber(s, i)
        ELSE IF startsWith(From(s, i), <<"n","u","l","l">>) THEN ParseOk(Null, i + 4)
        ELSE IF startsWith(From(s, i), <<"t","r","u","e">>) THEN ParseOk(Bool(TRUE), i + 4)
        ELSE IF startsWith(From(s, i), <<"f","a","l","s","e">>) THEN ParseOk(Bool(FALSE), i + 5)
        ELSE ParseFail

\* JSON.parse(s): [ok |-> FALSE] stands for the SyntaxError it throws
JsonParse(s) ==
    LET r == ParseValue(s, 1)
    IN  IF r.ok /\ SkipWs(s, r.next) > Len(s) THEN [ok |-> TRUE, v |-> r.v]
        ELSE [ok |-> FALSE, v |-> Undefined]

\* s1 + sep + s2 + ... over a sequence of strings
RECURSIVE JoinWith(_, _)
JoinWith(ss, sep) ==
    IF ss = <<>> THEN <<>>
    ELSE IF Len(ss) = 1 THEN ss[1]
    ELSE ss[1] \o sep \o JoinWith(Tail(ss), sep)

EscapeChar(c) ==
    CASE c = "\"" -> <<"\\", "\"">>
      [] c = "\\" -> <<"\\", "\\">>
      [] c = "\n" -> <<"\\", "n">>
      [] c = "\t" -> <<"\\", "t">>
      [] c = "\r" -> <<"\\", "r">>
      [] OTHER    -> <<c>>

Quote(s) == <<"\"">> \o JoinWith([i \in DOMAIN s |-> EscapeChar(s[i])], <<>>) \o <<"\"">>

\* JSON.stringify(x) without indentation (undefined inside an array prints null)
RECURSIVE JsonStringify(_)
JsonStringify(x) ==
    CASE x.t = "str"  -> Quote(x.s)
      [] x.t = "num"  -> NumToString(x.n)
      [] x.t = "bool" -> IF x.b THEN <<"t","r","u","e">> ELSE <<"f","a","l","s","e">>
      [] x.t = "arr"  -> <<"[">> \o JoinWith([i \in DOMAIN x.a |-> JsonStringify(x.a[i])], <<",">>)
                         \o <<"]">>
      [] x.t = "obj"  -> <<"{">> \o JoinWith([i \in DOMAIN x.o |->
                                        Quote(x.o[i].k) \o <<":">> \o JsonStringify(x.o[i].v)],
                                    <<",">>) \o <<"}">>
      [] OTHER        -> <<"n","u","l","l">>

\* String(x)
RECURSIVE JsString(_)
JsString(x) ==
    CASE x.t = "str"   -> x.s
      [] x.t = "num"   -> NumToString(x.n)
      [] x.t = "bool"  -> IF x.b THEN <<"t","r","u","e">> ELSE <<"f","a","l","s","e">>
      [] x.t = "null"  -> <<"n","u","l","l">>
      [] x.t = "undef" -> <<"u","n","d","e","f","i","n","e","d">>
      [] x.t = "arr"   -> JoinWith([i \in DOMAIN x.a |->
                                       IF x.a[i].t \in {"null", "undef"} THEN <<>>
                                       ELSE JsString(x.a[i])], <<",">>)
      [] OTHER         -> <<"[","o","b","j","e","c","t"," ","O","b","j","e","c","t","]">>

-----------------------------------------------------------------------------
(* Date.  An instant is kept as whole days since 1970-01-01 and the        *)
(* milliseconds within the day (UTC), which is exact and stays inside      *)
(* TLC's integers.  valid = FALSE is the Invalid Date (time value NaN).    *)

MsPerDay == 86400000

DateOf(d, ms) == [t |-> "date", valid |-> TRUE, d |-> d, ms |-> ms]
InvalidDate == [t |-> "date", valid |-> FALSE, d |-> 0, ms |-> 0]

\* new Date(n) for a number of milliseconds n
DateOfMs(n) == DateOf(n \div MsPerDay, n % MsPerDay)

\* a < b and a > b on Dates: every comparison with NaN is false
DateLt(a, b) == a.valid /\ b.valid /\ (a.d < b.d \/ (a.d = b.d /\ a.ms < b.ms))
DateGt(a, b) == DateLt(b, a)

\* days since 1970-01-01 of a civil date (proleptic Gregorian calendar)
DaysFromCivil(y0, m, d) ==
    LET y   == IF m <= 2 THEN y0 - 1 ELSE y0
        era == y \div 400
        yoe == y - era * 400
        mp  == IF m > 2 THEN m - 3 ELSE m + 9
        doy == (153 * mp + 2) \div 5 + d - 1
        doe == yoe * 365 + yoe \div 4 - yoe \div 100 + doy
    IN  era * 146097 + doe - 719468

\* the civil date of a day number
CivilFromDays(z0) ==
    LET z   == z0 + 719468
        era == z \div 146097
        doe == z - era * 146097
        yoe == (doe - doe \div 1460 + doe \div 36524 - doe \div 146096) \div 365
        doy == doe - (365 * yoe + yoe \div 4 - yoe \div 100)
        mp  == (5 * doy + 2) \div 153
        d   == doy - (153 * mp + 2) \div 5 + 1
        m   == IF mp < 10 THEN mp + 3 ELSE mp - 9
        y   == yoe + era * 400
    IN  [y |-> IF m <= 2 THEN y + 1 ELSE y, m |-> m, d |-> d]

DaysInMonth(y, m) == DaysFromCivil(IF m = 12 THEN y + 1 ELSE y, IF m = 12 THEN 1 ELSE m + 1, 1)
                     - DaysFromCivil(y, m, 1)

\* the digits of n, left-padded with zeros to width w
RECURSIVE Pad(_, _)
Pad(n, w) == IF w = 0 THEN <<>> ELSE Pad(n \div 10, w - 1) \o <<Digits[(n % 10) + 1]>>

\* Date.prototype.toISOString: YYYY-MM-DDTHH:mm:ss.sssZ
toISOString(date) ==
    LET c  == CivilFromDays(date.d)
        hh == date.ms \div 3600000
        mi == (date.ms \div 60000) % 60
        ss == (date.ms \div 1000) % 60
    IN  Pad(c.y, 4) \o <<"-">> \o Pad(c.m, 2) \o <<"-">> \o Pad(c.d, 2) \o <<"T">>
        \o Pad(hh, 2) \o <<":">> \o Pad(mi, 2) \o <<":">> \o Pad(ss, 2)
        \o <<".">> \o Pad(date.ms % 1000, 3) \o <<"Z">>

AllDigits(s, a, b) == b <= Len(s) /\ \A i \in a..b : IsDigit(s[i])
NumAt(s, a, b) == DigitsToNat(SubSeq(s, a, b))

\* s holds YYYY-MM-DD at position i
DateShapeAt(s, i) ==
    /\ i + 9 <= Len(s)
    /\ AllDigits(s, i, i + 3) /\ s[i + 4] = "-"
    /\ AllDigits(s, i + 5, i + 6) /\ s[i + 7] = "-"
    /\ AllDigits(s, i + 8, i + 9)

\* s holds HH:MM:SS at position i
TimeShapeAt(s, i) ==
    /\ i + 7 <= Len(s)
    /\ AllDigits(s, i, i + 1) /\ s[i + 2] = ":"
    /\ AllDigits(s, i + 3, i + 4) /\ s[i + 5] = ":"
    /\ AllDigits(s, i + 6, i + 7)

\* Date.parse of a string, in a UTC environment.  The formats covered:
\* YYYY-MM-DD, and YYYY-MM-DD followed by 'T' or ' ', HH:MM:SS, an optional
\* .sss and an optional Z.  Any other string is not a date (NaN).
DateParse(s) ==
    IF ~DateShapeAt(s, 1) THEN InvalidDate
    ELSE LET y  == NumAt(s, 1, 4)
             m  == NumAt(s, 6, 7)
             d  == NumAt(s, 9, 10)
             okDate == m \in 1..12 /\ d >= 1 /\ d <= DaysInMonth(y, m)
             rest == From(s, 11)
         IN  IF ~okDate THEN InvalidDate
             ELSE IF rest = <<>> THEN DateOf(DaysFromCivil(y, m, d), 0)
             ELSE IF ~(rest[1] \in {"T", " "} /\ TimeShapeAt(rest, 2)) THEN InvalidDate
             ELSE LET hh == NumAt(rest, 2, 3)
                      mi == NumAt(rest, 5, 6)
                      ss == NumAt(rest, 8, 9)
                      r2 == From(rest, 10)
                      hasMs == Len(r2) >= 4 /\ r2[1] = "." /\ AllDigits(r2, 2, 4)
                      msec == IF hasMs THEN NumAt(r2, 2, 4) ELSE 0
                      r3 == IF hasMs THEN From(r2, 5) ELSE r2
                 IN  IF hh > 23 \/ mi > 59 \/ ss > 59 THEN InvalidDate
                     ELSE IF r3 \notin {<<>>, <<"Z">>} THEN InvalidDate
                     ELSE DateOf(DaysFromCivil(y, m, d),
                                 ((hh * 60 + mi) * 60 + ss) * 1000 + msec)

\* new Date(x) for a value x
NewDate(x) ==
    CASE x.t = "str"   -> DateParse(x.s)
      [] x.t = "num"   -> DateOfMs(x.n)
      [] x.t = "null"  -> DateOfMs(0)
      [] x.t = "bool"  -> DateOfMs(IF x.b THEN 1 ELSE 0)
      [] x.t = "undef" -> InvalidDate
      [] OTHER         -> DateParse(JsString(x))

-----------------------------------------------------------------------------
(* Objects and exceptions                                                  *)

\* obj[key]: undefined when obj has no such own property
Get(obj, key) ==
    IF obj.t = "obj" /\ \E i \in DOMAIN obj.o : obj.o[i].k = key
    THEN obj.o[CHOOSE i \in DOMAIN obj.o : obj.o[i].k = key].v
    ELSE Undefined

Has(obj, key) == obj.t = "obj" /\ \E i \in DOMAIN obj.o : obj.o[i].k = key

\* Object.keys(obj) as a set
KeySet(obj) == {obj.o[i].k : i \in DOMAIN obj.o}

\* { ...a, ...b } on property lists
RECURSIVE Assign(_, _)
Assign(a, b) == IF b = <<>> THEN a
                ELSE Assign(PutProp(a, b[1].k, b[1].v), Tail(b))

\* the outcome of a call: a returned value, or a thrown Error with its message.
\* Messages are never inspected, so a message is kept as one symbol.
Return(x) == [threw |-> FALSE, v |-> x]
Throw(msg) == [threw |-> TRUE, v |-> Str(<<msg>>)]

\* Object.entries(x): throws a TypeError on null and undefined
ObjectEntries(x) ==
    CASE x.t \in {"null", "undef"} ->
             Throw("Cannot convert undefined or null to object")
      [] x.t = "obj" -> Return(x.o)
      [] x.t = "arr" -> Return([i \in DOMAIN x.a |-> Prop(NatToString(i - 1), x.a[i])])
      [] x.t = "str" -> Return([i \in DOMAIN x.s |-> Prop(NatToString(i - 1), Str(<<x.s[i]>>))])
      [] OTHER       -> Return(<<>>)

-----------------------------------------------------------------------------
(* LogParserService                                                        *)

K_id        == <<"_","i","d">>
K_index     == <<"_","i","n","d","e","x">>
K_timestamp == <<"@","t","i","m","e","s","t","a","m","p">>
K_level     == <<"l","e","v","e","l">>
K_message   == <<"m","e","s","s","a","g","e">>
K_raw       == <<"_","r","a","w">>

timestampFields == << K_timestamp,
                      <<"t","i","m","e","s","t","a","m","p">>,
                      <<"t","i","m","e">>,
                      <<"d","a","t","e","t","i","m","e">>,
                      <<"d","a","t","e">>,
                      <<"c","r","e","a","t","e","d","_","a","t">> >>

levelFields == << K_level,
                  <<"l","o","g",".","l","e","v","e","l">>,
                  <<"s","e","v","e","r","i","t","y">>,
                  <<"l","o","g","l","e","v","e","l">> >>

messageFields == << K_message,
                    <<"m","s","g">>,
                    <<"t","e","x","t">>,
                    <<"l","o","g">>,
                    <<"l","o","g",".","m","e","s","s","a","g","e">> >>

IsPlainObject(x) == x.t = "obj"

\* the loop with the entries of a nested object copied under their dotted
\* keys without descending into them
RECURSIVE flattenEntries_oneLevel(_, _, _)
flattenEntries_oneLevel(ps, prefix, res) ==
    IF ps = <<>> THEN res
    ELSE LET key    == ps[1].k
             value  == ps[1].v
             newKey == IF prefix # <<>> THEN prefix \o <<".">> \o key ELSE key
         IN  IF Truthy(value) /\ IsPlainObject(value)
             THEN flattenEntries_oneLevel(Tail(ps), prefix,
                      Assign(res, [i \in DOMAIN value.o |->
                                      Prop(newKey \o <<".">> \o value.o[i].k, value.o[i].v)]))
             ELSE flattenEntries_oneLevel(Tail(ps), prefix, PutProp(res, newKey, value))

\* the loop of flattenObject over the entries ps, result being built in res
RECURSIVE flattenEntries(_, _, _)
flattenEntries(ps, prefix, res) ==
    IF ps = <<>> THEN res
    ELSE LET key    == ps[1].k
             value  == ps[1].v
             newKey == IF prefix # <<>> THEN prefix \o <<".">> \o key ELSE key
         IN  IF Truthy(value) /\ IsPlainObject(value)
             THEN flattenEntries(Tail(ps), prefix,
                                 Assign(res, flattenEntries(value.o, newKey, <<>>)))
             ELSE flattenEntries(Tail(ps), prefix, PutProp(res, newKey, value))

flattenObject(obj, prefix) ==
    LET es == ObjectEntries(obj)
    IN  IF es.threw THEN es ELSE Return(Obj(flattenEntries(es.v, prefix, <<>>)))

TruthyString(x) == Truthy(x) /\ x.t = "str"

\* the loop over the candidate fields: the first field whose value in entry is
\* truthy (and, when stringOnly, a string), or 0
FirstField(entry, fields, stringOnly) ==
    LET hits == {i \in DOMAIN fields :
                     IF stringOnly THEN TruthyString(Get(entry, fields[i]))
                     ELSE Truthy(Get(entry, fields[i]))}
    IN  IF hits = {} THEN 0 ELSE CHOOSE i \in hits : \A j \in hits : i <= j

detectTimestamp(entry) ==
    LET i == FirstField(entry, timestampFields, TRUE)
    IN  IF i = 0 THEN Null ELSE Get(entry, timestampFields[i])

detectLevel(entry) ==
    LET i == FirstField(entry, levelFields, FALSE)
    IN  IF i = 0 THEN Undefined
        ELSE Str(toUpperCase(JsString(Get(entry, levelFields[i]))))

detectMessage(entry) ==
    LET i == FirstField(entry, messageFields, TRUE)
    IN  IF i = 0 THEN Undefined ELSE Get(entry, messageFields[i])

\* a || b
OrElse(a, b) == IF Truthy(a) THEN a ELSE b

EntryPrefix == <<"e","n","t","r","y","-">>
LinePrefix == <<"l","i","n","e","-">>

\* now: the instant new Date() returns during the call
normalizeEntry(entry, index, now) ==
    LET fl == flattenObject(entry, <<>>)
    IN  IF fl.threw THEN fl
        ELSE LET flattened == fl.v
             IN  Return(Obj(Assign(
                     << Prop(K_id, OrElse(Get(entry, K_id),
                                          Str(EntryPrefix \o NatToString(index)))),
                        Prop(K_index, Get(entry, K_index)),
                        Prop(K_timestamp, OrElse(detectTimestamp(flattened),
                                                 Str(toISOString(now)))),
                        Prop(K_level, detectLevel(flattened)),
                        Prop(K_message, detectMessage(flattened)) >>,
                     flattened.o)))

\* the least element of a non-empty set of integers
Least(S) == CHOOSE i \in S : \A j \in S : i <= j

\* /\d{4}-\d{2}-\d{2}T\d{2}:\d{2}:\d{2}(?:\.\d{3})?(?:Z|[+-]\d{2}:?\d{2})?/ at i:
\* the end of the match, or 0
IsoMatchEnd(s, i) ==
    IF ~(DateShapeAt(s, i) /\ i + 10 <= Len(s) /\ s[i + 10] = "T" /\ TimeShapeAt(s, i + 11))
    THEN 0
    ELSE LET e1 == i + 18
             e2 == IF e1 + 1 <= Len(s) /\ s[e1 + 1] = "." /\ AllDigits(s, e1 + 2, e1 + 4)
                   THEN e1 + 4 ELSE e1
         IN  IF e2 + 1 <= Len(s) /\ s[e2 + 1] = "Z" THEN e2 + 1
             ELSE IF e2 + 1 <= Len(s) /\ s[e2 + 1] \in {"+", "-"} /\ AllDigits(s, e2 + 2, e2 + 3)
                  THEN IF e2 + 4 <= Len(s) /\ s[e2 + 4] = ":" /\ AllDigits(s, e2 + 5, e2 + 6)
                       THEN e2 + 6
                       ELSE IF AllDigits(s, e2 + 4, e2 + 5) THEN e2 + 5 ELSE e2
             ELSE e2

\* /\d{4}-\d{2}-\d{2}\s+\d{2}:\d{2}:\d{2}/ at i: the end of the match, or 0
CommonMatchEnd(s, i) ==
    IF ~(DateShapeAt(s, i) /\ i + 10 <= Len(s) /\ IsSpace(s[i + 10])) THEN 0
    ELSE LET t == SkipWs(s, i + 10)
         IN  IF TimeShapeAt(s, t) THEN t + 7 ELSE 0

extractTimestampFromLine(line) ==
    LET iso == {i \in DOMAIN line : IsoMatchEnd(line, i) # 0}
        com == {i \in DOMAIN line : CommonMatchEnd(line, i) # 0}
    IN  IF iso # {} THEN Str(SubSeq(line, Least(iso), IsoMatchEnd(line, Least(iso))))
        ELSE IF com # {} THEN Str(SubSeq(line, Least(com), CommonMatchEnd(line, Least(com))))
        ELSE Null

levelKeywords == << <<"D","E","B","U","G">>,
                    <<"I","N","F","O">>,
                    <<"W","A","R","N">>,
                    <<"W","A","R","N","I","N","G">>,
                    <<"E","R","R","O","R">>,
                    <<"F","A","T","A","L">>,
                    <<"T","R","A","C","E">>,
                    <<"C","R","I","T","I","C","A","L">> >>

\* \b(kw)\b with the i flag matches at position i of line
KeywordAt(line, i, kw) ==
    LET e == i + Len(kw) - 1
    IN  /\ e <= Len(line)
        /\ toUpperCase(SubSeq(line, i, e)) = kw
        /\ (i = 1 \/ ~IsWordChar(line[i - 1]))
        /\ (e = Len(line) \/ ~IsWordChar(line[e + 1]))

extractLevelFromLine(line) ==
    LET at == {i \in DOMAIN line : \E k \in DOMAIN levelKeywords :
                                       KeywordAt(line, i, levelKeywords[k])}
    IN  IF at = {} THEN Undefined
        ELSE LET i == Least(at)
                 k == Least({j \in DOMAIN levelKeywords : KeywordAt(line, i, levelKeywords[j])})
             IN  Str(toUpperCase(SubSeq(line, i, i + Len(levelKeywords[k]) - 1)))

createTextEntry(line, index, now) ==
    LET timestamp == extractTimestampFromLine(line)
        level     == extractLevelFromLine(line)
    IN  Obj(<< Prop(K_id, Str(LinePrefix \o NatToString(index))),
               Prop(K_timestamp, OrElse(timestamp, Str(toISOString(now)))),
               Prop(K_level, level),
               Prop(K_message, Str(line)),
               Prop(K_raw, Str(line)) >>)

\* xs.map((x, index) => f(x, index)) where f may throw: the mapped array, or
\* the first exception
RECURSIVE MapEntries(_, _, _, _)
MapEntries(xs, i, now, acc) ==
    IF i > Len(xs) THEN Return(acc)
    ELSE LET r == normalizeEntry(xs[i], i - 1, now)
         IN  IF r.threw THEN r ELSE MapEntries(xs, i + 1, now, Append(acc, r.v))

parseJsonArray(content, now) ==
    LET parsed == JsonParse(content)
    IN  IF ~parsed.ok THEN Throw("Unexpected token in JSON")
        ELSE IF parsed.v.t # "arr" THEN Throw("Expected JSON array")
        ELSE MapEntries(parsed.v.a, 1, now, <<>>)

\* lines.filter(line => line.trim())
NonBlankLines(content) == SelectSeq(splitLines(content), LAMBDA line : trim(line) # <<>>)

\* one line of parseNdjson: the try block, and the catch block when it throws
ndjsonLine(line, index, now) ==
    LET parsed == JsonParse(line)
        entry  == IF parsed.ok THEN normalizeEntry(parsed.v, index, now)
                  ELSE Throw("Unexpected token in JSON")
    IN  IF entry.threw THEN createTextEntry(line, index, now) ELSE entry.v

parseNdjson(content, now) ==
    LET lines == NonBlankLines(content)
    IN  Return([i \in DOMAIN lines |-> ndjsonLine(lines[i], i - 1, now)])

parsePlainText(content, now) ==
    LET lines == splitLines(content)
    IN  Return([i \in DOMAIN lines |-> createTextEntry(lines[i], i - 1, now)])

\* the try block of parseLogFile: the entries, or the exception
parseEntries(content, now) ==
    LET trimmed == trim(content)
    IN  IF startsWith(trimmed, <<"[">>) THEN parseJsonArray(trimmed, now)
        ELSE IF startsWith(trimmed, <<"{">>) THEN parseNdjson(trimmed, now)
        ELSE parsePlainText(trimmed, now)

\* s.replace(/pat/g, r) for a pattern that is the literal text pat
RECURSIVE ReplaceText(_, _, _)
ReplaceText(s, pat, r) ==
    IF s = <<>> THEN <<>>
    ELSE IF startsWith(s, pat) THEN r \o ReplaceText(From(s, Len(pat) + 1), pat, r)
    ELSE <<s[1]>> \o ReplaceText(Tail(s), pat, r)

maxAttempts == 3

\* the five replacements of the escaped characters branch
ReplaceEscapes(result) ==
    ReplaceText(ReplaceText(ReplaceText(ReplaceText(ReplaceText(result,
        <<"\\", "\"">>, <<"\"">>),
        <<"\\", "n">>, <<"\n">>),
        <<"\\", "t">>, <<"\t">>),
        <<"\\", "r">>, <<"\r">>),
        <<"\\", "\\">>, <<"\\">>)

\* a turn without the branch for a JSON string literal
UnescapeTurn_noJsonBranch(result) ==
    LET escapes == \/ includes(result, <<"\\", "\"">>)
                   \/ includes(result, <<"\\", "n">>)
                   \/ includes(result, <<"\\", "t">>)
        unescaped == ReplaceEscapes(result)
    IN  IF escapes /\ unescaped # result THEN [k |-> "next", result |-> unescaped]
        ELSE [k |-> "break", result |-> result]

\* one turn of the while loop of unescapeString on result: "next" with the
\* new result when the turn ends in continue, "break", or "throw" when
\* JSON.parse throws
UnescapeTurn(result) ==
    LET escapes == \/ includes(result, <<"\\", "\"">>)
                   \/ includes(result, <<"\\", "n">>)
                   \/ includes(result, <<"\\", "t">>)
        Turn(quoted, parsed, unescaped) ==
            IF quoted /\ ~parsed.ok THEN [k |-> "throw", result |-> result]
            ELSE IF quoted /\ parsed.v.t = "str" THEN [k |-> "next", result |-> parsed.v.s]
            ELSE IF escapes /\ unescaped # result THEN [k |-> "next", result |-> unescaped]
            ELSE [k |-> "break", result |-> result]
    IN  Turn(startsWith(result, <<"\"">>) /\ endsWith(result, <<"\"">>),
             JsonParse(result), ReplaceEscapes(result))

\* the loop without the test of attempts against maxAttempts
RECURSIVE UnescapeLoop_noBudget(_, _, _)
UnescapeLoop_noBudget(result, attempts, passes) ==
    LET After(turn) ==
            IF turn.k = "next"
            THEN UnescapeLoop_noBudget(turn.result, attempts + 1,
                                       Append(passes, turn.result))
            ELSE [threw |-> turn.k = "throw", result |-> result, passes |-> passes]
    IN  After(UnescapeTurn(result))

\* the while loop of unescapeString: passes holds the result of every turn
\* that ended in continue
RECURSIVE UnescapeLoop(_, _, _)
UnescapeLoop(result, attempts, passes) ==
    LET After(turn) ==
            IF turn.k = "next"
            THEN UnescapeLoop(turn.result, attempts + 1, Append(passes, turn.result))
            ELSE [threw |-> turn.k = "throw", result |-> result, passes |-> passes]
    IN  IF attempts < maxAttempts THEN After(UnescapeTurn(result))
        ELSE [threw |-> FALSE, result |-> result, passes |-> passes]

\* unescapeString(str) with the turns it took: result is what it returns
UnescapeRun(str) ==
    IF str = <<>> THEN [threw |-> FALSE, result |-> str, passes |-> <<>>]
    ELSE LET Caught(run) ==
                 IF run.threw THEN [threw |-> TRUE, result |-> str, passes |-> run.passes]
                 ELSE run
         IN  Caught(UnescapeLoop(str, 0, <<>>))

unescapeString(str) == UnescapeRun(str).result

\* the end of the run of word characters that starts at position i
RECURSIVE WordRunEnd(_, _)
WordRunEnd(s, i) == IF i <= Len(s) /\ IsWordChar(s[i]) THEN WordRunEnd(s, i + 1) ELSE i - 1

\* content.match(/<(\w+)[^>]*>/) and content.includes(`</${tagName}>`)
looksLikeXml(content) ==
    LET at == {i \in DOMAIN content :
                   /\ content[i] = "<"
                   /\ WordRunEnd(content, i + 1) > i
                   /\ \E j \in (WordRunEnd(content, i + 1) + 1)..Len(content) :
                          content[j] = ">"}
    IN  IF at = {} THEN FALSE
        ELSE LET i == Least(at)
                 tagName == SubSeq(content, i + 1, WordRunEnd(content, i + 1))
             IN  includes(content, <<"<", "/">> \o tagName \o <<">">>)

CT_json == <<"j","s","o","n">>
CT_xml == <<"x","m","l">>
CT_text == <<"t","e","x","t">>
CT_unknown == <<"u","n","k","n","o","w","n">>
ContentTypes == {CT_json, CT_xml, CT_text, CT_unknown}

\* detectContentType on a trimmed string that does not begin with an escaped
\* quote or brace: the JSON, XML and SOAP checks
ClassifyTrimmed(trimmed) ==
    IF /\ \/ startsWith(trimmed, <<"{">>) /\ endsWith(trimmed, <<"}">>)
          \/ startsWith(trimmed, <<"[">>) /\ endsWith(trimmed, <<"]">>)
       /\ JsonParse(trimmed).ok
    THEN CT_json
    ELSE IF \/ startsWith(trimmed, <<"<","?","x","m","l">>)
            \/ /\ startsWith(trimmed, <<"<">>)
               /\ endsWith(trimmed, <<">">>)
               /\ looksLikeXml(trimmed)
    THEN CT_xml
    ELSE IF \/ includes(trimmed, <<"<","s","o","a","p",":","E","n","v","e","l","o","p","e">>)
            \/ includes(trimmed, <<"<","S","O","A","P","-","E","N","V",":">>)
    THEN CT_xml
    ELSE CT_text

\* the trimmed string begins with an escaped quote or an escaped brace
BeginsEscaped(trimmed) ==
    startsWith(trimmed, <<"\\", "\"">>) \/ startsWith(trimmed, <<"\\", "{">>)

-----------------------------------------------------------------------------
(* RegExp.  The syntax covered: literal characters, '.', the escapes \d \w *)
(* \s \n \t and escaped punctuation, classes of literal characters [...]   *)
(* and [^...], groups (...) and (?:...), alternation, the anchors ^ and $, *)
(* and the quantifiers * + ? (a lazy mark after a quantifier is accepted). *)
(* A pattern outside this syntax that the runtime rejects is rejected:     *)
(* an unmatched parenthesis, an unterminated class, a quantifier with      *)
(* nothing to repeat, a trailing backslash.                                *)

RxFail == [ok |-> FALSE, node |-> [k |-> "empty"], next |-> 0]
RxOk(node, n) == [ok |-> TRUE, node |-> node, next |-> n]

\* the position of the first ']' at or after i, or 0
ClassEnd(p, i) ==
    LET at == {j \in i..Len(p) : p[j] = "]"}
    IN  IF at = {} THEN 0 ELSE Least(at)

RxEscape(c) ==
    CASE c = "d" -> [k |-> "digit"]
      [] c = "w" -> [k |-> "word"]
      [] c = "s" -> [k |-> "space"]
      [] c = "n" -> [k |-> "char", c |-> "\n"]
      [] c = "t" -> [k |-> "char", c |-> "\t"]
      [] OTHER   -> [k |-> "char", c |-> c]

RECURSIVE RxAlt(_, _, _)
RECURSIVE RxSeq(_, _, _)
RECURSIVE RxAtom(_, _)

\* one atom at position i
RxAtom(p, i) ==
    IF p[i] = "("
    THEN LET j == IF i + 2 <= Len(p) /\ p[i + 1] = "?" /\ p[i + 2] = ":" THEN i + 3 ELSE i + 1
             g == RxAlt(p, j, <<>>)
         IN  IF g.ok /\ g.next <= Len(p) /\ p[g.next] = ")"
             THEN RxOk([k |-> "group", alt |-> g.node], g.next + 1)
             ELSE RxFail
    ELSE IF p[i] = "["
    THEN LET neg == i + 1 <= Len(p) /\ p[i + 1] = "^"
             a   == IF neg THEN i + 2 ELSE i + 1
             e   == ClassEnd(p, a)
         IN  IF e = 0 THEN RxFail
             ELSE RxOk([k |-> "class", neg |-> neg,
                        set |-> {p[j] : j \in a..(e - 1)}], e + 1)
    ELSE IF p[i] = "\\"
    THEN IF i + 1 > Len(p) THEN RxFail ELSE RxOk(RxEscape(p[i + 1]), i + 2)
    ELSE IF p[i] \in {"*", "+", "?"} THEN RxFail
    ELSE IF p[i] = "." THEN RxOk([k |-> "any"], i + 1)
    ELSE IF p[i] = "^" THEN RxOk([k |-> "bol"], i + 1)
    ELSE IF p[i] = "$" THEN RxOk([k |-> "eol"], i + 1)
    ELSE RxOk([k |-> "char", c |-> p[i]], i + 1)

\* a sequence of quantified atoms, up to '|', ')' or the end
RxSeq(p, i, acc) ==
    IF i > Len(p) \/ p[i] \in {"|", ")"} THEN RxOk(acc, i)
    ELSE LET a == RxAtom(p, i)
         IN  IF ~a.ok THEN RxFail
             ELSE LET quantified == a.next <= Len(p) /\ p[a.next] \in {"*", "+", "?"}
                      q    == IF quantified THEN p[a.next] ELSE "1"
                      n1   == IF quantified THEN a.next + 1 ELSE a.next
                      lazy == quantified /\ n1 <= Len(p) /\ p[n1] = "?"
                      n2   == IF lazy THEN n1 + 1 ELSE n1
                  IN  IF quantified /\ a.node.k \in {"bol", "eol"} THEN RxFail
                      ELSE RxSeq(p, n2, Append(acc, [atom |-> a.node, q |-> q, lazy |-> lazy]))

\* alternatives separated by '|', up to ')' or the end
RxAlt(p, i, acc) ==
    LET sq == RxSeq(p, i, <<>>)
    IN  IF ~sq.ok THEN RxFail
        ELSE IF sq.next <= Len(p) /\ p[sq.next] = "|"
             THEN RxAlt(p, sq.next + 1, Append(acc, sq.node))
        ELSE RxOk(Append(acc, sq.node), sq.next)

\* new RegExp(pattern, flags): ok = FALSE stands for the SyntaxError.
\* ignoreCase is the i flag.
NewRegExp(pattern, ignoreCase) ==
    LET r == RxAlt(pattern, 1, <<>>)
    IN  IF r.ok /\ r.next > Len(pattern)
        THEN [ok |-> TRUE, alt |-> r.node, ignoreCase |-> ignoreCase]
        ELSE [ok |-> FALSE, alt |-> <<>>, ignoreCase |-> ignoreCase]

SameChar(a, b, ignoreCase) == IF ignoreCase THEN UpperChar(a) = UpperChar(b) ELSE a = b

\* a single character c matches the atom
CharMatches(atom, c, ic) ==
    CASE atom.k = "char"  -> SameChar(atom.c, c, ic)
      [] atom.k = "any"   -> c \notin {"\n", "\r"}
      [] atom.k = "digit" -> IsDigit(c)
      [] atom.k = "word"  -> IsWordChar(c)
      [] atom.k = "space" -> IsSpace(c)
      [] atom.k = "class" -> (\E x \in atom.set : SameChar(x, c, ic)) # atom.neg
      [] OTHER            -> FALSE

RECURSIVE AltEnds(_, _, _, _)
RECURSIVE SeqEnds(_, _, _, _)
RECURSIVE AtomEnds(_, _, _, _)
RECURSIVE StarEnds(_, _, _, _)

\* the positions where a match of the atom can end when it starts in P
AtomEnds(atom, s, P, ic) ==
    CASE atom.k = "group" -> AltEnds(atom.alt, s, P, ic)
      [] atom.k = "bol"   -> P \cap {1}
      [] atom.k = "eol"   -> P \cap {Len(s) + 1}
      [] OTHER            -> {i + 1 : i \in {j \in P : j <= Len(s) /\ CharMatches(atom, s[j], ic)}}

\* zero or more repetitions of the atom
StarEnds(atom, s, P, ic) ==
    LET more == P \cup AtomEnds(atom, s, P, ic)
    IN  IF more = P THEN P ELSE StarEnds(atom, s, more, ic)

SeqEnds(terms, s, P, ic) ==
    IF terms = <<>> \/ P = {} THEN P
    ELSE LET t == terms[1]
             once == AtomEnds(t.atom, s, P, ic)
             ends == CASE t.q = "1" -> once
                       [] t.q = "?" -> P \cup once
                       [] t.q = "+" -> StarEnds(t.atom, s, once, ic)
                       [] OTHER     -> StarEnds(t.atom, s, P, ic)
         IN  SeqEnds(Tail(terms), s, ends, ic)

AltEnds(alts, s, P, ic) ==
    IF alts = <<>> THEN {}
    ELSE SeqEnds(alts[1], s, P, ic) \cup AltEnds(Tail(alts), s, P, ic)

\* regex.test(s) for a regex without the g flag
RegExpTest(regex, s) ==
    \E i \in 1..(Len(s) + 1) : AltEnds(regex.alt, s, {i}, regex.ignoreCase) # {}

RECURSIVE AltMatches(_, _, _, _)
RECURSIVE SeqMatches(_, _, _, _)
RECURSIVE SeqFrom(_, _, _, _)
RECURSIVE AtomMatches(_, _, _, _)
RECURSIVE StarMatches(_, _, _, _, _)
RECURSIVE StarFrom(_, _, _, _, _)

\* The matches of a pattern that start at position i, as the positions where
\* they end, in the order the backtracking matcher tries them: the first one
\* is the match the runtime reports.
AtomMatches(atom, s, i, ic) ==
    CASE atom.k = "group" -> AltMatches(atom.alt, s, i, ic)
      [] atom.k = "bol"   -> IF i = 1 THEN <<i>> ELSE <<>>
      [] atom.k = "eol"   -> IF i = Len(s) + 1 THEN <<i>> ELSE <<>>
      [] OTHER            -> IF i <= Len(s) /\ CharMatches(atom, s[i], ic)
                             THEN <<i + 1>> ELSE <<>>

\* zero or more repetitions from i: greedy tries one more repetition first,
\* lazy tries to stop first; a repetition that matches nothing is not repeated
StarMatches(atom, s, i, ic, lazy) ==
    LET once == SelectSeq(AtomMatches(atom, s, i, ic), LAMBDA e : e > i)
        more == StarFrom(atom, s, once, ic, lazy)
    IN  IF lazy THEN <<i>> \o more ELSE more \o <<i>>

StarFrom(atom, s, starts, ic, lazy) ==
    IF starts = <<>> THEN <<>>
    ELSE StarMatches(atom, s, starts[1], ic, lazy) \o StarFrom(atom, s, Tail(starts), ic, lazy)

SeqMatches(terms, s, i, ic) ==
    IF terms = <<>> THEN <<i>>
    ELSE LET t    == terms[1]
             once == AtomMatches(t.atom, s, i, ic)
             ends == CASE t.q = "1" -> once
                       [] t.q = "?" -> IF t.lazy THEN <<i>> \o once ELSE once \o <<i>>
                       [] t.q = "+" -> StarFrom(t.atom, s, once, ic, t.lazy)
                       [] OTHER     -> StarMatches(t.atom, s, i, ic, t.lazy)
         IN  SeqFrom(Tail(terms), s, ends, ic)

SeqFrom(terms, s, starts, ic) ==
    IF starts = <<>> THEN <<>>
    ELSE SeqMatches(terms, s, starts[1], ic) \o SeqFrom(terms, s, Tail(starts), ic)

AltMatches(alts, s, i, ic) ==
    IF alts = <<>> THEN <<>>
    ELSE SeqMatches(alts[1], s, i, ic) \o AltMatches(Tail(alts), s, i, ic)

\* s.replace(regex, open + '$1' + close) for a regex with the g flag whose
\* group 1 is the whole pattern; k is lastIndex, as a position of s
RECURSIVE ReplaceFrom(_, _, _, _, _)
ReplaceFrom(regex, s, k, open, close) ==
    LET at == {i \in k..(Len(s) + 1) : AltMatches(regex.alt, s, i, regex.ignoreCase) # <<>>}
    IN  IF at = {} THEN From(s, k)
        ELSE LET i == Least(at)
                 e == AltMatches(regex.alt, s, i, regex.ignoreCase)[1]
                 marked == SubSeq(s, k, i - 1) \o open \o SubSeq(s, i, e - 1) \o close
             IN  IF e > i THEN marked \o ReplaceFrom(regex, s, e, open, close)
                 ELSE IF i <= Len(s)
                      THEN marked \o <<s[i]>> \o ReplaceFrom(regex, s, i + 1, open, close)
                 ELSE marked

\* s.replace(/c/g, r) for a single character c
ReplaceChar(s, c, r) == JoinWith([i \in DOMAIN s |-> IF s[i] = c THEN r ELSE <<s[i]>>], <<>>)

-----------------------------------------------------------------------------
(* The files offered to the parser                                         *)

\*   [{"_id":"a","level":"info","msg":"ok"},
\*    {"_id":"a","log":{"level":"warn"}}]
FileDupIds ==
    << "[","{","\"","_","i","d","\"",":","\"","a","\"",",","\"","l","e",
       "v","e","l","\"",":","\"","i","n","f","o","\"",",","\"","m","s","g",
       "\"",":","\"","o","k","\"","}",",","\n"," ","{","\"","_","i","d",
       "\"",":","\"","a","\"",",","\"","l","o","g","\"",":","{","\"","l",
       "e","v","e","l","\"",":","\"","w","a","r","n","\"","}","}","]" >>

\*   [{"@timestamp":null,"time":"2024-01-01T00:00:00Z","severity":5},
\*    {"_id":"entry-0","@timestamp":"2024-01-02T10:00:00Z"}]
FileTimes ==
    << "[","{","\"","@","t","i","m","e","s","t","a","m","p","\"",":","n",
       "u","l","l",",","\"","t","i","m","e","\"",":","\"","2","0","2","4",
       "-","0","1","-","0","1","T","0","0",":","0","0",":","0","0","Z",
       "\"",",","\"","s","e","v","e","r","i","t","y","\"",":","5","}",",",
       "\n"," ","{","\"","_","i","d","\"",":","\"","e","n","t","r","y","-",
       "0","\"",",","\"","@","t","i","m","e","s","t","a","m","p","\"",":",
       "\"","2","0","2","4","-","0","1","-","0","2","T","1","0",":","0",
       "0",":","0","0","Z","\"","}","]" >>

\*   [{"a.b":1,"a":{"b":2},"c":{},"tags":["x","y"]}]
FileNested ==
    << "[","{","\"","a",".","b","\"",":","1",",","\"","a","\"",":","{",
       "\"","b","\"",":","2","}",",","\"","c","\"",":","{","}",",","\"",
       "t","a","g","s","\"",":","[","\"","x","\"",",","\"","y","\"","]",
       "}","]" >>

\*   [{"@timestamp":1700,"level":"ERROR","message":"Timeout"}]
FileNumericTime ==
    << "[","{","\"","@","t","i","m","e","s","t","a","m","p","\"",":","1",
       "7","0","0",",","\"","l","e","v","e","l","\"",":","\"","E","R","R",
       "O","R","\"",",","\"","m","e","s","s","a","g","e","\"",":","\"","T",
       "i","m","e","o","u","t","\"","}","]" >>

\*   ' [] ' and a line break
FileEmptyArray ==
    << " ","[","]"," ","\n" >>

\*   [{"a":1}
FileTruncated ==
    << "[","{","\"","a","\"",":","1","}" >>

\*   [{"_id":"z"},null]
FileNullElement ==
    << "[","{","\"","_","i","d","\"",":","\"","z","\"","}",",","n","u","l",
       "l","]" >>

\*   {"@timestamp":"2024-01-01T00:00:00Z","level":"info","msg":"ok"}
\*   not json
FileNdjson ==
    << "{","\"","@","t","i","m","e","s","t","a","m","p","\"",":","\"","2",
       "0","2","4","-","0","1","-","0","1","T","0","0",":","0","0",":","0",
       "0","Z","\"",",","\"","l","e","v","e","l","\"",":","\"","i","n","f",
       "o","\"",",","\"","m","s","g","\"",":","\"","o","k","\"","}","\n",
       "n","o","t"," ","j","s","o","n" >>

\*   {"level":"Error"}
\*   
\*   42
\*   null
\*     
\*   {"x":
FileNdjsonMixed ==
    << "{","\"","l","e","v","e","l","\"",":","\"","E","r","r","o","r","\"",
       "}","\n","\n","4","2","\n","n","u","l","l","\n"," "," ","\n","{",
       "\"","x","\"",":" >>

\*   2024-01-01 10:00:00 error disk full
\*   warning: low
\*   
\*   plain
FileText ==
    << "2","0","2","4","-","0","1","-","0","1"," ","1","0",":","0","0",":",
       "0","0"," ","e","r","r","o","r"," ","d","i","s","k"," ","f","u","l",
       "l","\n","w","a","r","n","i","n","g",":"," ","l","o","w","\n","\n",
       "p","l","a","i","n" >>

\*   2024-03-05T07:08:09.123Z INFO started
FileTextIso ==
    << "2","0","2","4","-","0","3","-","0","5","T","0","7",":","0","8",":",
       "0","9",".","1","2","3","Z"," ","I","N","F","O"," ","s","t","a","r",
       "t","e","d" >>

\*   two spaces and a line break
FileBlank ==
    << " "," ","\n" >>

\*   [7,"ab",[1],true]
FileScalars ==
    << "[","7",",","\"","a","b","\"",",","[","1","]",",","t","r","u","e",
       "]" >>

\*   [{"a":1},]
FileTrailingComma ==
    << "[","{","\"","a","\"",":","1","}",",","]" >>

\*   [{"@timestamp":"2024-01-01T00:00:00Z","message":"Timeout occurred","http":{"status_code":200},"user":"bob"},
\*    {"@timestamp":"2024-01-01T00:05:00Z","message":"OK","http":{"status_code":404},"tags":["a","b"]},
\*    {"@timestamp":"2024-01-01T00:10:00Z","message":"timeoutX","http":{"status_code":404}},
\*    {"@timestamp":"soon","message":"late","http":{"status_code":500},"user":null},
\*    {"@timestamp":null,"message":"epoch"}]
FileHttp ==
    << "[","{","\"","@","t","i","m","e","s","t","a","m","p","\"",":","\"",
       "2","0","2","4","-","0","1","-","0","1","T","0","0",":","0","0",":",
       "0","0","Z","\"",",","\"","m","e","s","s","a","g","e","\"",":","\"",
       "T","i","m","e","o","u","t"," ","o","c","c","u","r","r","e","d",
       "\"",",","\"","h","t","t","p","\"",":","{","\"","s","t","a","t","u",
       "s","_","c","o","d","e","\"",":","2","0","0","}",",","\"","u","s",
       "e","r","\"",":","\"","b","o","b","\"","}",",","\n"," ","{","\"",
       "@","t","i","m","e","s","t","a","m","p","\"",":","\"","2","0","2",
       "4","-","0","1","-","0","1","T","0","0",":","0","5",":","0","0","Z",
       "\"",",","\"","m","e","s","s","a","g","e","\"",":","\"","O","K",
       "\"",",","\"","h","t","t","p","\"",":","{","\"","s","t","a","t","u",
       "s","_","c","o","d","e","\"",":","4","0","4","}",",","\"","t","a",
       "g","s","\"",":","[","\"","a","\"",",","\"","b","\"","]","}",",",
       "\n"," ","{","\"","@","t","i","m","e","s","t","a","m","p","\"",":",
       "\"","2","0","2","4","-","0","1","-","0","1","T","0","0",":","1",
       "0",":","0","0","Z","\"",",","\"","m","e","s","s","a","g","e","\"",
       ":","\"","t","i","m","e","o","u","t","X","\"",",","\"","h","t","t",
       "p","\"",":","{","\"","s","t","a","t","u","s","_","c","o","d","e",
       "\"",":","4","0","4","}","}",",","\n"," ","{","\"","@","t","i","m",
       "e","s","t","a","m","p","\"",":","\"","s","o","o","n","\"",",","\"",
       "m","e","s","s","a","g","e","\"",":","\"","l","a","t","e","\"",",",
       "\"","h","t","t","p","\"",":","{","\"","s","t","a","t","u","s","_",
       "c","o","d","e","\"",":","5","0","0","}",",","\"","u","s","e","r",
       "\"",":","n","u","l","l","}",",","\n"," ","{","\"","@","t","i","m",
       "e","s","t","a","m","p","\"",":","n","u","l","l",",","\"","m","e",
       "s","s","a","g","e","\"",":","\"","e","p","o","c","h","\"","}","]" >>

Contents == { FileDupIds, FileTimes, FileNested, FileNumericTime, FileEmptyArray,
              FileTruncated, FileNullElement, FileNdjson, FileNdjsonMixed,
              FileText, FileTextIso, FileBlank, FileScalars, FileTrailingComma,
              FileHttp }

\* the instants new Date() may return during a load: 2024-06-01T12:00:00.000Z
\* and the millisecond after it
NowValues == { DateOf(DaysFromCivil(2024, 6, 1), 43200000),
               DateOf(DaysFromCivil(2024, 6, 1), 43200001) }

-----------------------------------------------------------------------------
(* Files for the statistics: records with a time, a level and a request     *)
(* duration, as a JSON array or as one JSON object per line                 *)

Day0 == DaysFromCivil(2024, 1, 1)

\* a source record at dayOff days and ms milliseconds after 2024-01-01T00:00Z;
\* an empty level and a negative duration stand for a record without the field
SourceRecord(dayOff, ms, level, duration) ==
    Obj(<< Prop(K_timestamp, Str(toISOString(DateOf(Day0 + dayOff, ms)))) >>
        \o (IF level = <<>> THEN <<>> ELSE << Prop(K_level, Str(level)) >>)
        \o (IF duration < 0 THEN <<>>
            ELSE << Prop(<<"h","t","t","p">>,
                         Obj(<< Prop(<<"d","u","r","a","t","i","o","n","_","m","s">>,
                                     Num(duration)) >>)) >>))

\* three records: two in the first minute of the span and one at its end
TimelineFile(span) ==
    JsonStringify(Arr(<< SourceRecord(0, 59000, <<"n","o","t","i","c","e">>, 12),
                         SourceRecord(0, 59500, <<"E","R","R","O","R">>, 0),
                         SourceRecord(span[1], 59000 + span[2], <<>>, 7) >>))

\* the spans from the first to the last record, as days and milliseconds:
\* 29, 30, 59 minutes and 59:59; 1 h, 8 h, 22 h 15 and 23 h 45; 1 day, 30 h
\* and 6 days 23 h; 7, 30, 59 and 364 days
TimelineSpans ==
    { <<0, 29 * 60000>>, <<0, 30 * 60000>>, <<0, 59 * 60000>>, <<0, 3599000>>,
      <<0, 3600000>>, <<0, 8 * 3600000>>, <<0, 22 * 3600000 + 15 * 60000>>,
      <<0, 23 * 3600000 + 45 * 60000>>,
      <<1, 0>>, <<1, 6 * 3600000>>, <<6, 23 * 3600000>>,
      <<7, 0>>, <<30, 0>>, <<59, 0>>, <<364, 0>> }

\* one record per duration, a second apart from 00:00:01 on, one per line
DurationFile(values) ==
    JoinWith([i \in DOMAIN values |->
                  JsonStringify(SourceRecord(0, i * 1000, <<"I","N","F","O">>, values[i]))],
             <<"\n">>)

Zeros(n) == [i \in 1..n |-> 0]

DurationLists ==
    { <<100, 10, 40, 20, 30>>,
      <<0, 7>>,
      <<100>> \o Zeros(19),
      <<100>> \o Zeros(20),
      Zeros(21),
      Zeros(10) \o <<50>> \o Zeros(11),
      [i \in 1..21 |-> 22 - i] }

\* one record per level, a second apart, one per line; the empty level is a
\* record without the field
LevelFile(levels) ==
    JoinWith([i \in DOMAIN levels |->
                  JsonStringify(SourceRecord(0, i * 1000, levels[i], -1))],
             <<"\n">>)

LevelLists ==
    { << <<"e","r","r","o","r">>, <<"I","N","F","O">>, <<"i","n","f","o">> >>,
      << <<"n","o","t","i","c","e">>, <<"e","r","r","o","r">> >>,
      << <<"i","n","f","o">>, <<"w","a","r","n">>, <<"e","r","r","o","r">>, <<>>, <<"d","e","b","u","g">>, <<"i","n","f","o">> >>,
      << <<"a","u","d","i","t">>, <<"n","o","t","i","c","e">>, <<"n","o","t","i","c","e">>, <<"E","R","R","O","R">> >>,
      << <<"W","A","R","N","I","N","G">>, <<"W","A","R","N">>, <<"F","A","T","A","L">>, <<"C","R","I","T","I","C","A","L">>, <<"T","R","A","C","E">>, <<"u","n","k","n","o","w","n">>, <<>> >> }

K_statusCode == <<"s","t","a","t","u","s","_","c","o","d","e">>

\* a source record at second i with a level (empty: none) and, under http, a
\* status code and a duration; Undefined stands for a field that is absent
RequestRecord(i, level, status, duration) ==
    Obj(<< Prop(K_timestamp, Str(toISOString(DateOf(Day0, i * 1000)))) >>
        \o (IF level = <<>> THEN <<>> ELSE << Prop(K_level, Str(level)) >>)
        \o << Prop(<<"h","t","t","p">>,
                   Obj((IF status = Undefined THEN <<>>
                        ELSE << Prop(K_statusCode, status) >>)
                       \o (IF duration = Undefined THEN <<>>
                           ELSE << Prop(<<"d","u","r","a","t","i","o","n","_","m","s">>,
                                        duration) >>))) >>)

\* one record per row <<level, status, duration>>, one per line
RequestFile(rows) ==
    JoinWith([i \in DOMAIN rows |->
                  JsonStringify(RequestRecord(i, rows[i][1], rows[i][2], rows[i][3]))],
             <<"\n">>)

\* rows with status codes of every class, below 200, as a string, null and
\* absent, and with durations that are numbers, strings, null and absent
RequestLists ==
    { << << <<"E","R","R","O","R">>, Num(200), Num(10) >>,
         << <<"i","n","f","o">>, Num(404), Num(20) >>,
         << <<"f","a","t","a","l">>, Num(500), Num(31) >>,
         << <<"C","r","i","t","i","c","a","l">>, Num(301), Undefined >>,
         << <<>>, Undefined, Undefined >> >>,
      << << <<"i","n","f","o">>, Num(100), Num(5) >>,
         << <<"i","n","f","o">>, Str(<<"2","0","0">>), Str(<<"1","2">>) >>,
         << <<"w","a","r","n">>, Num(299), Num(0) >>,
         << <<"e","r","r","o","r">>, Num(700), Num(-4) >> >>,
      << << <<"i","n","f","o">>, Num(100), Undefined >>,
         << <<"d","e","b","u","g">>, Null, Null >> >>,
      << << <<"i","n","f","o">>, Num(200), Num(1) >>,
         << <<"i","n","f","o">>, Num(204), Num(2) >>,
         << <<"e","r","r","o","r","s">>, Num(299), Num(4) >> >>,
      << << <<"e","r","r","o","r">>, Num(404), Num(3) >>,
         << <<"e","r","r","o","r">>, Num(503), Num(4) >>,
         << <<"f","a","t","a","l">>, Num(300), Num(0) >> >> }

\* four records, one per line: the first with a time that is no date, the
\* last in another five minutes
UnparsableTimeFile ==
    JoinWith(<< JsonStringify(Obj(<< Prop(K_timestamp, Str(<<"s","o","o","n">>)),
                                     Prop(K_level, Str(<<"e","r","r","o","r">>)) >>)),
                JsonStringify(RequestRecord(1, <<"e","r","r","o","r">>, Undefined, Undefined)),
                JsonStringify(RequestRecord(2, <<"i","n","f","o">>, Undefined, Undefined)),
                JsonStringify(RequestRecord(400, <<"f","a","t","a","l">>, Undefined, Undefined)) >>,
             <<"\n">>)

AnalyticsContents ==
    {TimelineFile(span) : span \in TimelineSpans}
        \cup {DurationFile(values) : values \in DurationLists}
        \cup {LevelFile(levels) : levels \in LevelLists}
        \cup {RequestFile(rows) : rows \in RequestLists}
        \cup {UnparsableTimeFile}

-----------------------------------------------------------------------------
(* State machine of LogParserService                                       *)

NoFilters == [start |-> Null, end |-> Null]

\* a history entry for a call that takes no file
NoCall(op) == [op |-> op, content |-> <<>>, now |-> InvalidDate, threw |-> FALSE]

\* no call of the content methods made yet
NoFrame == [op |-> "none", pc |-> "done", input |-> <<>>, content |-> <<>>, depth |-> 0,
            passes |-> <<>>, result |-> <<>>, threw |-> FALSE]

\* a computed signal that has to be evaluated by its next read: it was never
\* read, or a signal it read has changed since
NotComputed == [set |-> FALSE, from |-> <<>>, reads |-> <<>>]

\* a computed signal after a change of the signals in changed.  The value it
\* holds is not returned again once a signal it read has a new version, be
\* it found by the notification or by the version check of the next read.
Notified(cell, changed) ==
    IF cell.set /\ \E i \in DOMAIN cell.reads : cell.reads[i] \in changed
    THEN NotComputed
    ELSE cell

\* signal.set and signal.update with a new value, for the signals in changed
Notify(changed) ==
    /\ tableView' = Notified(tableView, changed)
    /\ analyticsView' = Notified(analyticsView, changed)

\* nothing asked for yet
NotCleared == [done |-> FALSE, active |-> FALSE, isRegex |-> FALSE, caseSensitive |-> FALSE]
NoRequest == [seq |-> 0, op |-> "none", content |-> <<>>]

Init ==
    /\ logs = <<>>
    /\ isLoading = FALSE
    /\ error = Null
    /\ lastCall = NoCall("none")
    /\ frame = NoFrame
    /\ searchQuery = <<>>
    /\ isRegex = FALSE
    /\ caseSensitive = FALSE
    /\ quickFilters = <<>>
    /\ timeRange = NoFilters
    /\ tableView = NotComputed
    /\ analyticsView = NotComputed
    /\ pending = {}
    /\ requested = NoRequest
    /\ cleared = NotCleared

\* the outcome of the try block for each file and instant, computed once
LoadOutcome == [content \in Contents, now \in NowValues |-> parseEntries(content, now)]

\* the same for the files of the statistics
AnalyticsOutcome ==
    [content \in AnalyticsContents, now \in NowValues |-> parseEntries(content, now)]

TryOutcome(content, now) ==
    IF content \in Contents THEN LoadOutcome[content, now]
    ELSE AnalyticsOutcome[content, now]

\* parseLogFile with a catch block that also clears the loaded records
parseLogFile_clearsOnFailure(content, now) ==
    \E r \in {TryOutcome(content, now)} :
        /\ logs' = IF r.threw THEN <<>> ELSE r.v
        /\ error' = IF r.threw THEN r.v ELSE Null
        /\ isLoading' = FALSE
        /\ lastCall' = [op |-> "parseLogFile", content |-> content, now |-> now,
                        threw |-> r.threw]
        /\ Notify({"logs"})
        /\ UNCHANGED <<frame, searchVars, loadVars, cleared>>

\* parseLogFile(content, filename); the filename is not read by the code.
\* isLoading is set to true on entry and to false in the finally block.
parseLogFile(content, now) ==
    \E r \in {TryOutcome(content, now)} :
        /\ logs' = IF r.threw THEN logs ELSE r.v
        /\ error' = IF r.threw THEN r.v ELSE Null
        /\ isLoading' = FALSE
        /\ lastCall' = [op |-> "parseLogFile", content |-> content, now |-> now,
                        threw |-> r.threw]
        /\ Notify(IF r.threw THEN {} ELSE {"logs"})
        /\ UNCHANGED <<frame, searchVars, loadVars, cleared>>

\* clearLogs without the reset of the error
clearLogs_keepsError ==
    /\ logs' = <<>>
    /\ lastCall' = NoCall("clearLogs")
    /\ Notify({"logs"})
    /\ UNCHANGED <<error, isLoading, frame, searchVars, loadVars, cleared>>

clearLogs ==
    /\ logs' = <<>>
    /\ error' = Null
    /\ lastCall' = NoCall("clearLogs")
    /\ Notify({"logs"})
    /\ UNCHANGED <<isLoading, frame, searchVars, loadVars, cleared>>

ParseAny == \E content \in Contents, now \in NowValues : parseLogFile(content, now)

Next == ParseAny \/ clearLogs

Spec == Init /\ [][Next]_vars

-----------------------------------------------------------------------------
(* The content methods of LogParserService: unescapeString and             *)
(* detectContentType, one activation of detectContentType per step         *)

\* the strings given to the content methods: every string of at most
\* MaxContentLen characters over ContentAlphabet, and the longer ones below
ContentAlphabet == {"\\", "\"", "n", "{", "a"}
MaxContentLen == 3
ShortContents == UNION {[1..k -> ContentAlphabet] : k \in 0..MaxContentLen}

\*   {"a":1}
ContentJson == <<"{","\"","a","\"",":","1","}">>
\*   ' <a>x</a> '
ContentXml == <<" ","<","a",">","x","<","/","a",">"," ">>
\*   <a>
ContentOpenTag == <<"<","a",">">>
\*   <?xml version
ContentXmlDecl == <<"<","?","x","m","l"," ","v","e","r","s","i","o","n">>
\*   x <soap:Envelope
ContentSoap == <<"x"," ","<","s","o","a","p",":","E","n","v","e","l","o","p","e">>
\*   [1,]
ContentBadArray == <<"[","1",",","]">>
\*   \{"a":1}
ContentEscapedBrace == <<"\\","{","\"","a","\"",":","1","}">>
\*   \"{\"a\":1}\"
ContentEscapedJson ==
    <<"\\","\"","{","\\","\"","a","\\","\"",":","1","}","\\","\"">>
\*   \"a\"
ContentEscapedWord == <<"\\","\"","a","\\","\"">>
\*   fifteen backslashes and then "x
ContentDeepEscape ==
    <<"\\","\\","\\","\\","\\","\\","\\","\\","\\","\\","\\","\\","\\","\\","\\","\"","x">>

\*   a\rb, the four characters a, backslash, r, b
ContentEscapedReturn == <<"a","\\","r","b">>

LongContents == { ContentEscapedReturn, ContentJson, ContentXml, ContentOpenTag, ContentXmlDecl, ContentSoap,
                  ContentBadArray, ContentEscapedBrace, ContentEscapedJson,
                  ContentEscapedWord, ContentDeepEscape }
ContentInputs == ShortContents \cup LongContents

RT_RangeError == <<"R","a","n","g","e","E","r","r","o","r">>

\* a call of unescapeString: it runs to its return in one step
unescapeStringCall(str) ==
    /\ frame.pc = "done"
    /\ \E run \in {UnescapeRun(str)} :
           frame' = [op |-> "unescapeString", pc |-> "done", input |-> str, content |-> str,
                     depth |-> 0, passes |-> run.passes, result |-> run.result,
                     threw |-> FALSE]
    /\ UNCHANGED <<logs, isLoading, error, lastCall, searchVars, appVars, cleared>>

\* a call of detectContentType: the first activation is entered
detectContentTypeCall(content) ==
    /\ frame.pc = "done"
    /\ frame' = [op |-> "detectContentType", pc |-> "run", input |-> content,
                 content |-> content, depth |-> 0, passes |-> <<>>, result |-> <<>>,
                 threw |-> FALSE]
    /\ UNCHANGED <<logs, isLoading, error, lastCall, searchVars, appVars, cleared>>

\* the activation of detectContentType on frame.content: it returns a type,
\* or it calls detectContentType on the unescaped string.  When that string
\* trims to the one this activation trimmed, every further activation does
\* the same and the recursion ends only when the stack is exhausted, with a
\* RangeError thrown to the caller.
detectContentType ==
    /\ frame.op = "detectContentType"
    /\ frame.pc = "run"
    /\ LET Recurse(trimmed, unescaped) ==
               IF trim(unescaped) = trimmed
               THEN [frame EXCEPT !.pc = "done", !.result = RT_RangeError, !.threw = TRUE]
               ELSE [frame EXCEPT !.content = unescaped, !.depth = @ + 1]
           Activation(content, trimmed) ==
               IF content = <<>>
               THEN [frame EXCEPT !.pc = "done", !.result = CT_unknown]
               ELSE IF BeginsEscaped(trimmed)
               THEN Recurse(trimmed, unescapeString(trimmed))
               ELSE [frame EXCEPT !.pc = "done", !.result = ClassifyTrimmed(trimmed)]
       IN  frame' = Activation(frame.content, trim(frame.content))
    /\ UNCHANGED <<logs, isLoading, error, lastCall, searchVars, appVars, cleared>>

UnescapeAny == \E str \in ContentInputs : unescapeStringCall(str)
DetectAny == \E content \in ContentInputs : detectContentTypeCall(content)

NextContent == UnescapeAny \/ DetectAny \/ detectContentType

SpecContent == Init /\ [][NextContent]_vars

-----------------------------------------------------------------------------
(* SearchService                                                           *)

hasActiveFilters ==
    \/ Len(searchQuery) > 0
    \/ Len(quickFilters) > 0
    \/ timeRange.start.t # "null"
    \/ timeRange.end.t # "null"

setSearchQuery(query) ==
    /\ searchQuery' = query
    /\ Notify(IF query # searchQuery THEN {"searchQuery"} ELSE {})
    /\ cleared' = NotCleared
    /\ UNCHANGED <<parserVars, isRegex, caseSensitive, quickFilters, timeRange, loadVars>>

toggleRegex ==
    /\ isRegex' = ~isRegex
    /\ Notify({"isRegex"})
    /\ cleared' = NotCleared
    /\ UNCHANGED <<parserVars, searchQuery, caseSensitive, quickFilters, timeRange, loadVars>>

toggleCaseSensitive ==
    /\ caseSensitive' = ~caseSensitive
    /\ Notify({"caseSensitive"})
    /\ cleared' = NotCleared
    /\ UNCHANGED <<parserVars, searchQuery, isRegex, quickFilters, timeRange, loadVars>>

setRegex(enabled) ==
    /\ isRegex' = enabled
    /\ Notify(IF enabled # isRegex THEN {"isRegex"} ELSE {})
    /\ cleared' = NotCleared
    /\ UNCHANGED <<parserVars, searchQuery, caseSensitive, quickFilters, timeRange, loadVars>>

SearchFilter(field, value, operator) == [field |-> field, value |-> value, operator |-> operator]

\* filters with the filter at position index (0-based) left out
WithoutIndex(filters, index) ==
    [i \in 1..(Len(filters) - (IF index \in 0..(Len(filters) - 1) THEN 1 ELSE 0)) |->
        IF i <= index THEN filters[i] ELSE filters[i + 1]]

\* addQuickFilter without the test for a filter that is already there
addQuickFilter_noDedup(field, value, operator) ==
    /\ quickFilters' = Append(quickFilters, SearchFilter(field, value, operator))
    /\ Notify({"quickFilters"})
    /\ cleared' = NotCleared
    /\ UNCHANGED <<parserVars, searchQuery, isRegex, caseSensitive, timeRange, loadVars>>

addQuickFilter(field, value, operator) ==
    /\ quickFilters' =
           IF \E i \in DOMAIN quickFilters :
                  /\ quickFilters[i].field = field
                  /\ quickFilters[i].value = value
                  /\ quickFilters[i].operator = operator
           THEN quickFilters
           ELSE Append(quickFilters, SearchFilter(field, value, operator))
    /\ Notify(IF quickFilters' # quickFilters THEN {"quickFilters"} ELSE {})
    /\ cleared' = NotCleared
    /\ UNCHANGED <<parserVars, searchQuery, isRegex, caseSensitive, timeRange, loadVars>>

removeQuickFilter(index) ==
    /\ quickFilters' = WithoutIndex(quickFilters, index)
    /\ Notify({"quickFilters"})
    /\ cleared' = NotCleared
    /\ UNCHANGED <<parserVars, searchQuery, isRegex, caseSensitive, timeRange, loadVars>>

clearQuickFilters ==
    /\ quickFilters' = <<>>
    /\ Notify({"quickFilters"})
    /\ cleared' = NotCleared
    /\ UNCHANGED <<parserVars, searchQuery, isRegex, caseSensitive, timeRange, loadVars>>

setTimeRange(start, end) ==
    /\ timeRange' = [start |-> start, end |-> end]
    /\ Notify({"timeRange"})
    /\ cleared' = NotCleared
    /\ UNCHANGED <<parserVars, searchQuery, isRegex, caseSensitive, quickFilters, loadVars>>

clearTimeRange ==
    /\ timeRange' = [start |-> Null, end |-> Null]
    /\ Notify({"timeRange"})
    /\ cleared' = NotCleared
    /\ UNCHANGED <<parserVars, searchQuery, isRegex, caseSensitive, quickFilters, loadVars>>

\* clearAll without the reset of the time range
clearAll_keepsTimeRange ==
    /\ searchQuery' = <<>>
    /\ quickFilters' = <<>>
    /\ timeRange' = timeRange
    /\ Notify(IF searchQuery # <<>> THEN {"searchQuery", "quickFilters", "timeRange"}
              ELSE {"quickFilters", "timeRange"})
    /\ cleared' = [done |-> TRUE, active |-> hasActiveFilters,
                   isRegex |-> isRegex, caseSensitive |-> caseSensitive]
    /\ UNCHANGED <<parserVars, isRegex, caseSensitive, loadVars>>

clearAll ==
    /\ searchQuery' = <<>>
    /\ quickFilters' = <<>>
    /\ timeRange' = [start |-> Null, end |-> Null]
    /\ Notify(IF searchQuery # <<>> THEN {"searchQuery", "quickFilters", "timeRange"}
              ELSE {"quickFilters", "timeRange"})
    /\ cleared' = [done |-> TRUE, active |-> hasActiveFilters,
                   isRegex |-> isRegex, caseSensitive |-> caseSensitive]
    /\ UNCHANGED <<parserVars, isRegex, caseSensitive, loadVars>>

\* the predicate of the time range stage
inTimeRange(entry, range) ==
    LET timestamp == NewDate(Get(entry, K_timestamp))
    IN  /\ ~(Truthy(range.start) /\ DateLt(timestamp, range.start))
        /\ ~(Truthy(range.end) /\ DateGt(timestamp, range.end))

\* x ?? y
Coalesce(x, y) == IF x.t \in {"null", "undef"} THEN y ELSE x

\* the predicate of one quick filter
passesFilter(entry, filter) ==
    LET entryValue == JsString(Coalesce(Get(entry, filter.field), Str(<<>>)))
    IN  CASE filter.operator = "equals"     -> entryValue = filter.value
          [] filter.operator = "contains"   ->
                 includes(toLowerCase(entryValue), toLowerCase(filter.value))
          [] filter.operator = "not_equals" -> entryValue # filter.value
          [] OTHER                          -> TRUE

\* the quick filters combined with OR instead of AND
passesQuickFilters_any(entry, filters) ==
    \E i \in DOMAIN filters : passesFilter(entry, filters[i])

passesQuickFilters(entry, filters) ==
    \A i \in DOMAIN filters : passesFilter(entry, filters[i])

\* typeof value === 'object' ? JSON.stringify(value) : String(value)
stringValue(value) ==
    IF value.t \in {"obj", "arr"} THEN JsonStringify(value) ELSE JsString(value)

SearchableValues(entry) ==
    {entry.o[i].v : i \in {j \in DOMAIN entry.o : entry.o[j].v.t \notin {"null", "undef"}}}

matchesRegex(entry, regex) ==
    \E value \in SearchableValues(entry) : RegExpTest(regex, stringValue(value))

\* matchesSearch comparing the values as they are, whatever the mode
matchesSearch_neverFolds(entry, query, sensitive) ==
    \E value \in SearchableValues(entry) : includes(stringValue(value), query)

matchesSearch(entry, query, sensitive) ==
    \E value \in SearchableValues(entry) :
        LET compareValue == IF sensitive THEN stringValue(value)
                            ELSE toLowerCase(stringValue(value))
        IN  includes(compareValue, query)

\* the time range stage run without the guard on the bounds, and requiring a
\* timestamp that parses
timeStage_dropsUnparsable(ls) ==
    SelectSeq(ls, LAMBDA entry : /\ NewDate(Get(entry, K_timestamp)).valid
                                 /\ inTimeRange(entry, timeRange))

timeStage(ls) ==
    IF Truthy(timeRange.start) \/ Truthy(timeRange.end)
    THEN SelectSeq(ls, LAMBDA entry : inTimeRange(entry, timeRange))
    ELSE ls

quickFilterStage(ls) ==
    IF Len(quickFilters) > 0
    THEN SelectSeq(ls, LAMBDA entry : passesQuickFilters(entry, quickFilters))
    ELSE ls

\* the query stage with a catch block that yields no records
queryStage_invalidRegexDropsAll(ls) ==
    LET query == trim(searchQuery)
    IN  IF Len(query) > 0
        THEN IF isRegex
             THEN LET regex == NewRegExp(query, ~caseSensitive)
                  IN  IF regex.ok
                      THEN SelectSeq(ls, LAMBDA entry : matchesRegex(entry, regex))
                      ELSE <<>>
             ELSE LET searchLower == IF caseSensitive THEN query ELSE toLowerCase(query)
                  IN  SelectSeq(ls, LAMBDA entry :
                                        matchesSearch(entry, searchLower, caseSensitive))
        ELSE ls

queryStage(ls) ==
    LET query == trim(searchQuery)
    IN  IF Len(query) > 0
        THEN IF isRegex
             THEN LET regex == NewRegExp(query, ~caseSensitive)
                  IN  IF regex.ok
                      THEN SelectSeq(ls, LAMBDA entry : matchesRegex(entry, regex))
                      ELSE ls
             ELSE LET searchLower == IF caseSensitive THEN query ELSE toLowerCase(query)
                  IN  SelectSeq(ls, LAMBDA entry :
                                        matchesSearch(entry, searchLower, caseSensitive))
        ELSE ls

filterLogs(ls) == queryStage(quickFilterStage(timeStage(ls)))

\* App.filteredLogs: the records the table shows
filteredLogs == filterLogs(logs)

escapeHtml(str) ==
    ReplaceChar(ReplaceChar(ReplaceChar(ReplaceChar(str,
        "&", <<"&","a","m","p",";">>),
        "<", <<"&","l","t",";">>),
        ">", <<"&","g","t",";">>),
        "\"", <<"&","q","u","o","t",";">>)

MarkOpen ==
    << "<","m","a","r","k"," ","c","l","a","s","s","=","\"","s","e","a","r",
       "c","h","-","h","i","g","h","l","i","g","h","t","\"",">" >>
MarkClose == << "<","/","m","a","r","k",">" >>

RegExpSpecials == {".", "*", "+", "?", "^", "$", "{", "}", "(", ")", "|", "[", "]", "\\"}

\* query.replace(/[.*+?^${}()|[\]\\]/g, '\\$&')
EscapeRegExp(query) ==
    JoinWith([i \in DOMAIN query |-> IF query[i] \in RegExpSpecials
                                     THEN <<"\\", query[i]>> ELSE <<query[i]>>], <<>>)

\* the pattern highlightMatches compiles, `(${query})` with the flags g or gi
HighlightRegExp(pattern) == NewRegExp(<<"(">> \o pattern \o <<")">>, ~caseSensitive)

highlightMatches(text) ==
    LET query == trim(searchQuery)
    IN  IF query = <<>> THEN escapeHtml(text)
        ELSE LET escaped == escapeHtml(text)
                 regex   == HighlightRegExp(IF isRegex THEN query ELSE EscapeRegExp(query))
             IN  IF regex.ok
                 THEN ReplaceFrom(regex, escaped, 1, MarkOpen, MarkClose)
                 ELSE escaped

-----------------------------------------------------------------------------
(* The search states offered                                               *)

Q_timeout == <<"t","i","m","e","o","u","t">>
Q_Timeout == <<"T","i","m","e","o","u","t">>
Q_blank == <<" ">>
Q_openParen == <<"(">>
Q_pattern == <<"^","t",".","*","x","$","|","4","0","+">>
F_statusCode == <<"h","t","t","p",".","s","t","a","t","u","s","_","c","o","d","e">>
F_tags == <<"t","a","g","s">>
F_user == <<"u","s","e","r">>
V_404 == <<"4","0","4">>
V_time == <<"T","I","M","E">>
V_tagsString == <<"a",",","b">>
V_tagsJson == <<"[","\"","a","\"",",","\"","b","\"","]">>
T_start == <<"2","0","2","4","-","0","1","-","0","1","T","0","0",":","0","0",":","0","0","Z">>
T_mid == <<"2","0","2","4","-","0","1","-","0","1","T","0","0",":","0","5",":","0","0","Z">>

Q_star == <<"*">>

Q_padded == <<" ","O","K"," ">>

Q_lt == <<"l","t">>

Queries == { <<>>, Q_blank, Q_padded, Q_timeout, Q_Timeout, Q_lt, Q_openParen, Q_star,
             Q_pattern }

\* the cell texts highlighted: a<b, salt, t"x, Timeout x, 404 & more, and the
\* empty text
HighlightTexts ==
    { <<"a","<","b">>,
      <<"s","a","l","t">>,
      <<"t","\"","x">>,
      <<"T","i","m","e","o","u","t"," ","x">>,
      <<"4","0","4"," ","&"," ","m","o","r","e">>,
      <<>> }

FilterPool == { SearchFilter(F_statusCode, V_404, "equals"),
                SearchFilter(F_user, <<>>, "not_equals"),
                SearchFilter(K_message, V_time, "contains"),
                SearchFilter(F_tags, V_tagsString, "equals"),
                SearchFilter(F_tags, V_tagsJson, "equals") }

\* the search toolbar passes new Date(text) or null
StartBounds == { Null, NewDate(Str(T_start)), NewDate(Str(T_mid)) }
EndBounds == { Null, NewDate(Str(T_mid)) }

\* the most quick filters held at once
MaxFilters == 2

\* the files loaded while searching
SearchFiles == { FileHttp }
SearchNow == CHOOSE now \in NowValues : \A other \in NowValues : ~DateLt(other, now)

LoadForSearch == \E content \in SearchFiles : parseLogFile(content, SearchNow)

SetQuery == \E query \in Queries : setSearchQuery(query)
SetRegex == \E enabled \in BOOLEAN : setRegex(enabled)
AddFilter == \E f \in FilterPool :
                 /\ Len(quickFilters) < MaxFilters
                 /\ addQuickFilter(f.field, f.value, f.operator)
RemoveFilter == \E index \in 0..(MaxFilters - 1) : removeQuickFilter(index)
SetTimeRange == \E start \in StartBounds, end \in EndBounds : setTimeRange(start, end)

NextSearch ==
    \/ LoadForSearch
    \/ SetQuery
    \/ toggleRegex
    \/ toggleCaseSensitive
    \/ SetRegex
    \/ AddFilter
    \/ RemoveFilter
    \/ clearQuickFilters
    \/ SetTimeRange
    \/ clearTimeRange
    \/ clearAll

SpecSearch == Init /\ [][NextSearch]_vars

-----------------------------------------------------------------------------
(* Properties of LogParserService, checked under Spec                      *)

LoadedOk == lastCall.op = "parseLogFile" /\ ~lastCall.threw
LoadFailed == lastCall.op = "parseLogFile" /\ lastCall.threw

IsArrayFile(content) == startsWith(trim(content), <<"[">>)
IsNdjsonFile(content) == startsWith(trim(content), <<"{">>)

\* a whole-file parse failure, read off the file: it opens with '[' and is not
\* valid JSON, or it holds an element that has no properties to normalize
WholeFileFailure(content) ==
    /\ IsArrayFile(content)
    /\ LET parsed == JsonParse(trim(content))
       IN  \/ ~parsed.ok
           \/ \E i \in DOMAIN parsed.v.a : parsed.v.a[i].t \in {"null", "undef"}

\* C1 as stated: after a whole-file parse failure the error is set and the
\* previously loaded record set is cleared (logs() is empty, hasLogs() false).
C1_FailedLoadClearsRecords ==
    (lastCall.op = "parseLogFile" /\ WholeFileFailure(lastCall.content))
        => (error # Null /\ logs = <<>>)

\* C1 as amended: a parseLogFile that fails as a whole-file parse failure sets
\* the error and leaves the previously loaded record set as it was.
C1_FailedLoadKeepsRecords ==
    [][ (lastCall'.op = "parseLogFile" /\ WholeFileFailure(lastCall'.content))
            => (error' # Null /\ logs' = logs) ]_vars

C1_Witness == LoadFailed /\ WholeFileFailure(lastCall.content) /\ logs # <<>>

\* C2: after any load, every record's level is absent or an upper-case string.
LevelIsUpperCase(entry) ==
    LET level == Get(entry, K_level)
    IN  level.t = "undef" \/ (level.t = "str" /\ level.s = toUpperCase(level.s))

C2_LevelUpperCase == \A i \in DOMAIN logs : LevelIsUpperCase(logs[i])

\* C3: every record produced by a load has a timestamp that is present and is
\* a string.
C3_TimestampIsString ==
    \A i \in DOMAIN logs : Get(logs[i], K_timestamp).t = "str"

\* C4: within any loaded record set, no two records have the same _id.
C4_IdsUnique ==
    \A i, j \in DOMAIN logs : i # j => Get(logs[i], K_id) # Get(logs[j], K_id)

\* the fields of a source object at any depth as [path, value]: a field whose
\* value is a non-empty plain object stands for the fields below it
RECURSIVE SourceFields(_, _)
SourceFields(ps, prefix) ==
    UNION { LET path == IF prefix = <<>> THEN ps[i].k ELSE prefix \o <<".">> \o ps[i].k
            IN  IF ps[i].v.t = "obj" /\ ps[i].v.o # <<>>
                THEN SourceFields(ps[i].v.o, path)
                ELSE {[path |-> path, value |-> ps[i].v]}
            : i \in DOMAIN ps }

\* the elements of the JSON array file last loaded
SourceElements == JsonParse(trim(lastCall.content)).v.a

\* C5: normalization loses no information: every field of the source object,
\* at any depth, is an attribute of the record under its dot-path key, holding
\* the source value.
C5_NoInformationLoss ==
    (LoadedOk /\ IsArrayFile(lastCall.content)) =>
        \A i \in DOMAIN logs :
            SourceElements[i].t = "obj" =>
                \A f \in SourceFields(SourceElements[i].o, <<>>) :
                    Has(logs[i], f.path) /\ Get(logs[i], f.path) = f.value

\* C6: for content that opens with '{' the load sets no error and produces one
\* record per non-blank line, in line order: a line that parses to a JSON
\* object gives a normalized record, and any other line gives a plain-text
\* record whose message and _raw are the line.
C6_NdjsonLineRecords ==
    (lastCall.op = "parseLogFile" /\ IsNdjsonFile(lastCall.content)) =>
        LET lines == NonBlankLines(trim(lastCall.content))
        IN  /\ error = Null
            /\ Len(logs) = Len(lines)
            /\ \A i \in DOMAIN lines :
                   LET parsed == JsonParse(lines[i])
                   IN  IF parsed.ok /\ parsed.v.t = "obj"
                       THEN logs[i] = normalizeEntry(parsed.v, i - 1, lastCall.now).v
                       ELSE /\ Get(logs[i], K_message) = Str(lines[i])
                            /\ Get(logs[i], K_raw) = Str(lines[i])

\* C7: parseLogFile never throws; after any sequence of parseLogFile and
\* clearLogs calls isLoading is false, and error is non-null exactly when the
\* most recent call was a parseLogFile that failed.
C7_ErrorIffLastLoadFailed ==
    /\ isLoading = FALSE
    /\ (error # Null) <=>
           (lastCall.op = "parseLogFile" /\ WholeFileFailure(lastCall.content))
    /\ \A content \in Contents, now \in NowValues : ENABLED parseLogFile(content, now)

C7_Witness == error # Null /\ LoadFailed /\ logs = <<>>
-----------------------------------------------------------------------------
(* Properties of SearchService, checked under SpecSearch                   *)

\* xs is ys with some elements left out: same relative order, none added
RECURSIVE IsSubsequence(_, _)
IsSubsequence(xs, ys) ==
    IF xs = <<>> THEN TRUE
    ELSE IF ys = <<>> THEN FALSE
    ELSE IF xs[1] = ys[1] THEN IsSubsequence(Tail(xs), Tail(ys))
    ELSE IsSubsequence(xs, Tail(ys))

NoActiveSearch ==
    /\ searchQuery = <<>>
    /\ quickFilters = <<>>
    /\ timeRange.start.t = "null"
    /\ timeRange.end.t = "null"

\* C8: filterLogs returns a subsequence of its input, so no more records than
\* it was given, and with an empty query, no quick filters and both time
\* bounds null it returns the input unchanged.
C8_FilterIsSubsequence ==
    /\ IsSubsequence(filteredLogs, logs)
    /\ Len(filteredLogs) <= Len(logs)
    /\ NoActiveSearch => filteredLogs = logs

C8_Witness ==
    /\ hasActiveFilters
    /\ 0 < Len(filteredLogs)
    /\ Len(filteredLogs) < Len(logs)

\* the timestamp of entry lies inside the inclusive range; a timestamp that
\* cannot be parsed lies inside no range
InsideRange(entry, range) ==
    LET t == NewDate(Get(entry, K_timestamp))
    IN  /\ t.valid
        /\ (range.start.t = "null" \/ ~DateLt(t, range.start))
        /\ (range.end.t = "null" \/ ~DateGt(t, range.end))

\* C9: when a time range with at least one bound is set, the time range stage
\* keeps exactly the records whose timestamp t satisfies (start absent or
\* start <= t) and (end absent or t <= end); a record whose timestamp cannot
\* be parsed is not inside any range.
C9_TimeRangeKeepsExactlyInside ==
    (timeRange.start.t # "null" \/ timeRange.end.t # "null") =>
        timeStage(logs) = SelectSeq(logs, LAMBDA entry : InsideRange(entry, timeRange))

\* the string form C10 states: objects and arrays JSON-serialized, other
\* values stringified (an absent or null value has the empty string form)
StatedStringForm(value) ==
    IF value.t \in {"null", "undef"} THEN <<>> ELSE stringValue(value)

\* the string form the quick filter stage compares: String(value ?? '')
RECURSIVE ComparedStringForm(_)
ComparedStringForm(value) ==
    CASE value.t \in {"null", "undef"} -> <<>>
      [] value.t = "str"  -> value.s
      [] value.t = "num"  -> NumToString(value.n)
      [] value.t = "bool" -> IF value.b THEN <<"t","r","u","e">> ELSE <<"f","a","l","s","e">>
      [] value.t = "arr"  -> JoinWith([i \in DOMAIN value.a |->
                                          ComparedStringForm(value.a[i])], <<",">>)
      [] OTHER            -> <<"[","o","b","j","e","c","t"," ","O","b","j","e","c","t","]">>

\* entry satisfies filter when its field has the string form text
Satisfies(text, filter) ==
    CASE filter.operator = "equals"     -> text = filter.value
      [] filter.operator = "contains"   -> includes(toLowerCase(text), toLowerCase(filter.value))
      [] filter.operator = "not_equals" -> text # filter.value

\* C10 as stated: a record passes the quick filter stage iff it satisfies every
\* active filter, the field value being JSON-serialized when it is an object
\* or an array and stringified otherwise.
C10_QuickFiltersJsonForm ==
    quickFilterStage(logs) =
        SelectSeq(logs, LAMBDA entry :
            \A i \in DOMAIN quickFilters :
                Satisfies(StatedStringForm(Get(entry, quickFilters[i].field)),
                          quickFilters[i]))

\* C10 as amended: a record passes the quick filter stage iff it satisfies
\* every active filter, the field value being compared in the form
\* String(value ?? ''): empty for an absent or null value, the elements joined
\* by commas for an array.  equals "404" on http.status_code over the status
\* codes 200, 404, 404, 500 keeps exactly the two 404 records.
C10_QuickFiltersAnd ==
    /\ quickFilterStage(logs) =
           SelectSeq(logs, LAMBDA entry :
               \A i \in DOMAIN quickFilters :
                   Satisfies(ComparedStringForm(Get(entry, quickFilters[i].field)),
                             quickFilters[i]))
    /\ (LoadedOk /\ lastCall.content = FileHttp
            /\ quickFilters = <<SearchFilter(F_statusCode, V_404, "equals")>>)
           => quickFilterStage(logs) = <<logs[2], logs[3]>>

C10_Witness ==
    /\ Len(quickFilters) = 2
    /\ 0 < Len(quickFilterStage(logs))
    /\ Len(quickFilterStage(logs)) < Len(logs)

IsActiveFilter(f) == \E i \in DOMAIN quickFilters : quickFilters[i] = f

NoDuplicateFilters ==
    \A i, j \in DOMAIN quickFilters : i # j => quickFilters[i] # quickFilters[j]

\* C11: the quick filter list holds no two entries with the same (field,
\* value, operator): adding a tuple that is already present leaves the list
\* unchanged, and adding a new tuple appends it at the end.
C11_NoDuplicateFilters ==
    /\ NoDuplicateFilters
    /\ \A f \in FilterPool :
           ~ENABLED (/\ addQuickFilter(f.field, f.value, f.operator)
                     /\ quickFilters' # (IF IsActiveFilter(f) THEN quickFilters
                                         ELSE Append(quickFilters, f)))

C11_Witness ==
    /\ Len(quickFilters) = 2
    /\ \E f \in FilterPool : IsActiveFilter(f)

\* the query is a pattern new RegExp rejects
MalformedPattern ==
    /\ Len(trim(searchQuery)) > 0
    /\ ~NewRegExp(trim(searchQuery), ~caseSensitive).ok

\* C12: in regex mode with a query that is not a valid pattern, filterLogs
\* returns exactly the output of the time range and quick filter stages: the
\* query stage drops nothing.
C12_MalformedRegexSkipsQueryStage ==
    /\ (isRegex /\ MalformedPattern) => filteredLogs = quickFilterStage(timeStage(logs))
    /\ searchQuery \in {Q_openParen, Q_star} => MalformedPattern

C12_Witness ==
    /\ isRegex
    /\ MalformedPattern
    /\ 0 < Len(filteredLogs)
    /\ Len(filteredLogs) < Len(logs)

\* some non-null field value of entry, in string form (objects JSON-serialized),
\* contains query, compared case-insensitively unless case sensitivity is on
ContainsQuery(entry, query) ==
    \E i \in DOMAIN entry.o :
        /\ entry.o[i].v.t \notin {"null", "undef"}
        /\ LET text == IF entry.o[i].v.t \in {"obj", "arr"}
                       THEN JsonStringify(entry.o[i].v)
                       ELSE JsString(entry.o[i].v)
           IN  IF caseSensitive THEN includes(text, query)
               ELSE includes(toLowerCase(text), toLowerCase(query))

\* C13 as stated: in literal mode with a non-empty query, a record is kept iff
\* one of its non-null field values, in string form, contains the query.
C13_LiteralKeepsContaining ==
    (~isRegex /\ Len(searchQuery) > 0) =>
        queryStage(logs) = SelectSeq(logs, LAMBDA entry : ContainsQuery(entry, searchQuery))

\* C13 as amended: the query is the search text with the white space at both
\* ends removed; in literal mode, when it is non-empty, a record is kept iff one
\* of its non-null field values, in string form, contains it, and when it is
\* empty every record is kept.  "timeout" case-insensitive over the messages
\* "Timeout occurred", "OK", "timeoutX" keeps records 1 and 3.
C13_LiteralKeepsContainingTrimmed ==
    /\ ~isRegex =>
           queryStage(logs) =
               IF Len(trim(searchQuery)) > 0
               THEN SelectSeq(logs, LAMBDA entry : ContainsQuery(entry, trim(searchQuery)))
               ELSE logs
    /\ (LoadedOk /\ lastCall.content = FileHttp /\ ~isRegex /\ searchQuery = Q_timeout)
           => queryStage(logs) = IF caseSensitive THEN <<logs[3]>> ELSE <<logs[1], logs[3]>>

C13_Witness ==
    /\ ~isRegex
    /\ ~caseSensitive
    /\ searchQuery = Q_Timeout
    /\ Len(queryStage(logs)) = 2

\* text with a marker around every match of the regex in text itself, from
\* position k on, each piece HTML-escaped
RECURSIVE MarkedFrom(_, _, _)
MarkedFrom(regex, text, k) ==
    LET at == {i \in k..(Len(text) + 1) :
                   AltMatches(regex.alt, text, i, regex.ignoreCase) # <<>>}
    IN  IF at = {} THEN escapeHtml(From(text, k))
        ELSE LET i == Least(at)
                 e == AltMatches(regex.alt, text, i, regex.ignoreCase)[1]
                 marked == escapeHtml(SubSeq(text, k, i - 1)) \o MarkOpen
                               \o escapeHtml(SubSeq(text, i, e - 1)) \o MarkClose
             IN  IF e > i THEN marked \o MarkedFrom(regex, text, e)
                 ELSE IF i <= Len(text)
                      THEN marked \o escapeHtml(<<text[i]>>) \o MarkedFrom(regex, text, i + 1)
                 ELSE marked

\* the escaped text with exactly the matches of the active query marked
MarkedMatches(text) ==
    LET query == trim(searchQuery)
        regex == HighlightRegExp(IF isRegex THEN query ELSE EscapeRegExp(query))
    IN  IF query = <<>> \/ ~regex.ok THEN escapeHtml(text)
        ELSE MarkedFrom(regex, text, 1)

\* C14: highlightMatches wraps in a marker exactly the substrings of the text
\* that match the active query, whatever HTML-special characters the text
\* holds; with no query, or a malformed regex, the result is the escaped text
\* without markers.
C14_HighlightMarksExactlyMatches ==
    \A text \in HighlightTexts : highlightMatches(text) = MarkedMatches(text)

-----------------------------------------------------------------------------
(* Properties of the content methods, checked under SpecContent            *)

UnescapeReturned == frame.op = "unescapeString" /\ frame.pc = "done"

\* the string before pass i of the call
BeforePass(i) == IF i = 1 THEN frame.input ELSE frame.passes[i - 1]

\* C15: unescapeString returns for every input after at most 3 transforming
\* passes: every pass it counts changed the string, and what it returns is
\* the string after the last pass, or the input.
C15_UnescapeAtMostThreePasses ==
    UnescapeReturned =>
        /\ Len(frame.passes) <= 3
        /\ \A i \in DOMAIN frame.passes : frame.passes[i] # BeforePass(i)
        /\ frame.result \in {frame.input, BeforePass(Len(frame.passes) + 1)}

\* the budget ends a call that a further pass would still transform
C15_Witness ==
    /\ UnescapeReturned
    /\ Len(frame.passes) = 3
    /\ frame.result = frame.passes[3]
    /\ includes(frame.result, <<"\\", "\"">>)

NoBackslash(s) == \A i \in DOMAIN s : s[i] # "\\"

\* s is a JSON string literal without escapes: it begins and ends with a
\* double quote and holds no double quote and no control character between
QuotedLiteral(s) ==
    /\ Len(s) >= 2
    /\ s[1] = "\"" /\ s[Len(s)] = "\""
    /\ \A i \in 2..(Len(s) - 1) : s[i] \notin {"\"", "\n", "\t", "\r"}

\* C16 as stated: unescapeString returns every string without a backslash as
\* it is, also when it begins and ends with a double quote.
C16_NoBackslashUnchanged ==
    (UnescapeReturned /\ NoBackslash(frame.input)) => frame.result = frame.input

\* C16 as amended: unescapeString returns a string without a backslash as it
\* is, unless the string is a JSON string literal, which it returns without
\* the enclosing double quotes.
C16_NoBackslashUnchangedOrUnquoted ==
    (UnescapeReturned /\ NoBackslash(frame.input)) =>
        frame.result = IF QuotedLiteral(frame.input)
                       THEN SubSeq(frame.input, 2, Len(frame.input) - 1)
                       ELSE frame.input

C16_Witness ==
    /\ UnescapeReturned
    /\ NoBackslash(frame.input)
    /\ QuotedLiteral(frame.input)
    /\ Len(frame.input) = 3
    /\ frame.result = <<frame.input[2]>>

\* C17: detectContentType returns one of json, xml, text, unknown for every
\* input string, also when its trimmed form begins with an escaped quote or
\* brace and unescapeString leaves it unchanged.
C17_DetectReturnsAType ==
    (frame.op = "detectContentType" /\ frame.pc = "done") =>
        (~frame.threw /\ frame.result \in ContentTypes)

-----------------------------------------------------------------------------
(* AnalyticsService: statistics computed from the filtered records          *)

\* a < b for two tuples of integers of one length, first difference decides
RECURSIVE LexLess(_, _)
LexLess(a, b) ==
    IF a = <<>> THEN FALSE
    ELSE IF a[1] # b[1] THEN a[1] < b[1]
    ELSE LexLess(Tail(a), Tail(b))

\* Array.prototype.sort with a comparator that orders by the integer tuples
\* keys[i]: the positions of the elements in sorted order.  The sort is
\* stable, so elements with equal keys keep their order.
SortOrder(keys) ==
    LET before(j, i) == LexLess(keys[j], keys[i]) \/ (keys[j] = keys[i] /\ j < i)
        rank(i) == Cardinality({j \in DOMAIN keys : before(j, i)}) + 1
    IN  [r \in DOMAIN keys |-> CHOOSE i \in DOMAIN keys : rank(i) = r]

\* xs in the order given by SortOrder(keys)
Sorted(xs, keys) == LET order == SortOrder(keys) IN [r \in DOMAIN xs |-> xs[order[r]]]

L_UNKNOWN == <<"U","N","K","N","O","W","N">>

priority ==
    << <<"E","R","R","O","R">>, <<"F","A","T","A","L">>,
       <<"C","R","I","T","I","C","A","L">>, <<"W","A","R","N">>,
       <<"W","A","R","N","I","N","G">>, <<"I","N","F","O">>,
       <<"D","E","B","U","G">>, <<"T","R","A","C","E">>, L_UNKNOWN >>

levelColors ==
    << "#C62828", "#AD1457", "#AD1457", "#E65100", "#E65100", "#1565C0",
       "#2E7D32", "#455A64", "#888888" >>

\* priority.indexOf(level): the position counted from 0, or -1
PriorityIndexOf(level) ==
    IF \E i \in DOMAIN priority : priority[i] = level
    THEN (CHOOSE i \in DOMAIN priority : priority[i] = level) - 1
    ELSE -1

\* (log.level || 'UNKNOWN').toUpperCase()
LevelOf(log) ==
    LET level == Get(log, K_level)
    IN  IF Truthy(level) THEN toUpperCase(JsString(level)) ELSE L_UNKNOWN

\* the keys of the Map counts in insertion order: each level at the place of
\* its first record
RECURSIVE LevelKeys(_, _)
LevelKeys(ls, acc) ==
    IF ls = <<>> THEN acc
    ELSE LET level == LevelOf(Head(ls))
         IN  LevelKeys(Tail(ls),
                       IF \E i \in DOMAIN acc : acc[i] = level THEN acc
                       ELSE Append(acc, level))

LevelCount(ls, level) == Cardinality({i \in DOMAIN ls : LevelOf(ls[i]) = level})

\* the comparator of the sort as a key: priority index first, then the count
\* descending.  An unlisted level has index -1.
LevelSortKey(ls, level) == << PriorityIndexOf(level), 0 - LevelCount(ls, level) >>

\* the percentage count / total * 100 is kept as the fraction num / den
LevelEntry(ls, level) ==
    [ level |-> level,
      count |-> LevelCount(ls, level),
      percentage |-> IF Len(ls) > 0 THEN [num |-> LevelCount(ls, level) * 100, den |-> Len(ls)]
                     ELSE [num |-> 0, den |-> 1],
      color |-> IF PriorityIndexOf(level) >= 0 THEN levelColors[PriorityIndexOf(level) + 1]
                ELSE "#888888" ]

LevelDistributionOf(ls) ==
    LET keys == LevelKeys(ls, <<>>)
        ordered == Sorted(keys, [i \in DOMAIN keys |-> LevelSortKey(ls, keys[i])])
    IN  [i \in DOMAIN ordered |-> LevelEntry(ls, ordered[i])]

levelDistribution == LevelDistributionOf(filteredLogs)

K_duration == <<"h","t","t","p",".","d","u","r","a","t","i","o","n","_","m","s">>

\* b.getTime() - a.getTime() for a <= b.  The code compares the difference
\* only with bounds of at most 7 days, so a longer one is kept as 8 days.
Elapsed(a, b) ==
    IF b.d - a.d > 7 THEN 8 * MsPerDay ELSE (b.d - a.d) * MsPerDay + (b.ms - a.ms)

\* Math.floor(date.getTime() / bucketMs) for a bucketMs that divides a day;
\* the bucket key of the code is this number times bucketMs
BucketOf(date, bucketMs) == date.d * (MsPerDay \div bucketMs) + (date.ms \div bucketMs)

\* new Date(bucket * bucketMs)
BucketTime(bucket, bucketMs) ==
    DateOf(bucket \div (MsPerDay \div bucketMs),
           (bucket % (MsPerDay \div bucketMs)) * bucketMs)

\* the valid instants of @timestamp of the records, sorted ascending
TimestampsOf(ls) ==
    LET all == [i \in DOMAIN ls |-> NewDate(Get(ls[i], K_timestamp))]
        valid == SelectSeq(all, LAMBDA d : d.valid)
    IN  Sorted(valid, [i \in DOMAIN valid |-> <<valid[i].d, valid[i].ms>>])

\* the bucket sizes with each boundary value in the finer size
TimelineBucketMs_boundaryFiner(range) ==
    IF range <= 60 * 60 * 1000 THEN 60 * 1000
    ELSE IF range <= 24 * 60 * 60 * 1000 THEN 15 * 60 * 1000
    ELSE IF range <= 7 * 24 * 60 * 60 * 1000 THEN 60 * 60 * 1000
    ELSE 24 * 60 * 60 * 1000

\* the bucket size chosen for the range of the timeline
TimelineBucketMs(range) ==
    IF range < 60 * 60 * 1000 THEN 60 * 1000
    ELSE IF range < 24 * 60 * 60 * 1000 THEN 15 * 60 * 1000
    ELSE IF range < 7 * 24 * 60 * 60 * 1000 THEN 60 * 60 * 1000
    ELSE 24 * 60 * 60 * 1000

\* the labels are formatted in the locale of the browser; the model keeps
\* which of the formats is applied
TimelineLabel(range) ==
    IF range < 24 * 60 * 60 * 1000 THEN "hour:minute"
    ELSE IF range < 7 * 24 * 60 * 60 * 1000 THEN "weekday hour"
    ELSE "month day"

\* the gap-filled series: one point per bucket from that of the first
\* instant to that of the last
TimelineSeries(ls) ==
    LET timestamps == TimestampsOf(ls)
    IN  IF ls = <<>> \/ timestamps = <<>> THEN <<>>
        ELSE LET minTime == timestamps[1]
                 maxTime == timestamps[Len(timestamps)]
                 range == Elapsed(minTime, maxTime)
                 bucketMs == TimelineBucketMs(range)
                 inBucket(b) == Cardinality({i \in DOMAIN timestamps :
                                                 BucketOf(timestamps[i], bucketMs) = b})
                 startBucket == BucketOf(minTime, bucketMs)
                 endBucket == BucketOf(maxTime, bucketMs)
                 maxCount == CHOOSE m \in 1..Len(timestamps) :
                                 /\ \E b \in startBucket..endBucket : inBucket(b) = m
                                 /\ \A b \in startBucket..endBucket : inBucket(b) <= m
             IN  [i \in 1..(endBucket - startBucket + 1) |->
                     [ time |-> BucketTime(startBucket + i - 1, bucketMs),
                       label |-> [format |-> TimelineLabel(range),
                                  time |-> BucketTime(startBucket + i - 1, bucketMs)],
                       count |-> inBucket(startBucket + i - 1),
                       maxCount |-> maxCount ]]

\* result.filter((_, i) => i % step === 0), i counting from 0
FilterIndex(result, step) ==
    LET kept == SelectSeq([i \in DOMAIN result |-> i], LAMBDA i : (i - 1) % step = 0)
    IN  [k \in DOMAIN kept |-> result[kept[k]]]

\* the limit with the step rounded down
Downsample_floorStep(result) ==
    IF Len(result) > 30
    THEN FilterIndex(result, Len(result) \div 30)
    ELSE result

\* the limit to 30 buckets: step is Math.ceil(result.length / 30)
Downsample(result) ==
    IF Len(result) > 30
    THEN FilterIndex(result, (Len(result) + 29) \div 30)
    ELSE result

timelineData == Downsample(TimelineSeries(filteredLogs))

\* the records with a valid time and a number as duration, sorted by time
DurationPoints(ls) ==
    LET all == [i \in DOMAIN ls |->
                    [time |-> NewDate(Get(ls[i], K_timestamp)),
                     duration |-> Get(ls[i], K_duration)]]
        kept == SelectSeq(all, LAMBDA p : p.time.valid /\ p.duration.t = "num")
    IN  Sorted(kept, [i \in DOMAIN kept |-> <<kept[i].time.d, kept[i].time.ms>>])

\* the sum of the numbers of a sequence
RECURSIVE Sum(_)
Sum(xs) == IF xs = <<>> THEN 0 ELSE Head(xs) + Sum(Tail(xs))

\* durations[p95Index] || durations[durations.length - 1] on the sorted
\* values: an index past the end reads undefined, and 0 is falsy as well
P95(durations) ==
    LET p95Index == (Len(durations) * 95) \div 100
        at == IF p95Index < Len(durations) THEN durations[p95Index + 1] ELSE 0
    IN  IF p95Index < Len(durations) /\ at # 0 THEN at ELSE durations[Len(durations)]

\* the statistics of one bucket; the average is kept as the fraction num / den
DurationPoint(bucket, bucketMs, values) ==
    LET durations == Sorted(values, [i \in DOMAIN values |-> <<values[i]>>])
    IN  [ time |-> BucketTime(bucket, bucketMs),
          label |-> [format |-> "hour:minute", time |-> BucketTime(bucket, bucketMs)],
          avgDuration |-> [num |-> Sum(durations), den |-> Len(durations)],
          maxDuration |-> durations[Len(durations)],
          minDuration |-> durations[1],
          p95Duration |-> P95(durations) ]

\* the durations of the points of one bucket, in the order of the points
BucketDurations(points, bucket, bucketMs) ==
    LET inside == SelectSeq(points, LAMBDA p : BucketOf(p.time, bucketMs) = bucket)
    IN  [i \in DOMAIN inside |-> inside[i].duration.n]

\* the Map buckets in ascending order of the bucket: the durations of each
\* bucket in the order of the points
DurationBuckets(ls) ==
    LET dataPoints == DurationPoints(ls)
    IN  IF ls = <<>> \/ Len(dataPoints) < 2 THEN <<>>
        ELSE LET range == Elapsed(dataPoints[1].time, dataPoints[Len(dataPoints)].time)
                 bucketMs == IF range < 60 * 60 * 1000 THEN 5 * 60 * 1000
                             ELSE 15 * 60 * 1000
                 keys == {BucketOf(dataPoints[i].time, bucketMs) : i \in DOMAIN dataPoints}
                 nth(r) == CHOOSE b \in keys : Cardinality({c \in keys : c < b}) = r - 1
             IN  [r \in 1..Cardinality(keys) |->
                     [ bucket |-> nth(r), bucketMs |-> bucketMs,
                       values |-> BucketDurations(dataPoints, nth(r), bucketMs) ]]

DurationEvolutionOf(ls) ==
    LET buckets == DurationBuckets(ls)
    IN  [r \in DOMAIN buckets |->
            DurationPoint(buckets[r].bucket, buckets[r].bucketMs, buckets[r].values)]

durationEvolution == DurationEvolutionOf(filteredLogs)

statusCategories == << "2xx", "3xx", "4xx", "5xx" >>

statusColors == << "#2E7D32", "#E65100", "#C62828", "#AD1457" >>

\* every number below 300 counted as a success
StatusCategory_noLowerBound(status) ==
    IF status.t # "num" THEN "none"
    ELSE IF status.n < 300 THEN "2xx"
    ELSE IF status.n >= 300 /\ status.n < 400 THEN "3xx"
    ELSE IF status.n >= 400 /\ status.n < 500 THEN "4xx"
    ELSE IF status.n >= 500 THEN "5xx"
    ELSE "none"

\* the counter that the loop of statusDistribution adds a status to
StatusCategory(status) ==
    IF status.t # "num" THEN "none"
    ELSE IF status.n >= 200 /\ status.n < 300 THEN "2xx"
    ELSE IF status.n >= 300 /\ status.n < 400 THEN "3xx"
    ELSE IF status.n >= 400 /\ status.n < 500 THEN "4xx"
    ELSE IF status.n >= 500 THEN "5xx"
    ELSE "none"

StatusCount(ls, category) ==
    Cardinality({i \in DOMAIN ls : StatusCategory(Get(ls[i], F_statusCode)) = category})

\* a quotient the code computes in floating point, kept as the fraction
\* num / den; Zero is the number 0
Zero == [num |-> 0, den |-> 1]

\* the categories with a count above 0, in the order of the counters
StatusDistributionOf(ls) ==
    LET total == Sum([c \in DOMAIN statusCategories |-> StatusCount(ls, statusCategories[c])])
        present == SelectSeq([c \in DOMAIN statusCategories |-> c],
                             LAMBDA c : StatusCount(ls, statusCategories[c]) > 0)
    IN  [i \in DOMAIN present |->
            [ category |-> statusCategories[present[i]],
              count |-> StatusCount(ls, statusCategories[present[i]]),
              percentage |-> IF total > 0
                             THEN [num |-> StatusCount(ls, statusCategories[present[i]]) * 100,
                                   den |-> total]
                             ELSE Zero,
              color |-> statusColors[present[i]] ]]

statusDistribution == StatusDistributionOf(filteredLogs)

errorLevels ==
    { <<"E","R","R","O","R">>, <<"F","A","T","A","L">>, <<"C","R","I","T","I","C","A","L">> }

\* the values of http.duration_ms that are numbers, in the order of the records
NumericDurations(ls) ==
    LET all == [i \in DOMAIN ls |-> Get(ls[i], K_duration)]
        kept == SelectSeq(all, LAMBDA d : d.t = "num")
    IN  [i \in DOMAIN kept |-> kept[i].n]

SummaryOf(ls) ==
    LET levels == LevelDistributionOf(ls)
        statuses == StatusDistributionOf(ls)
        errors == SelectSeq(levels, LAMBDA l : l.level \in errorLevels)
        errorCount == Sum([i \in DOMAIN errors |-> errors[i].count])
        found == SelectSeq(statuses, LAMBDA s : s.category = "2xx")
        successRate == IF Len(statuses) > 0 /\ found # <<>> /\ found[1].percentage.num # 0
                       THEN found[1].percentage
                       ELSE Zero
        durations == NumericDurations(ls)
        avgDuration == IF Len(durations) > 0
                       THEN [num |-> Sum(durations), den |-> Len(durations)]
                       ELSE Zero
    IN  [ totalLogs |-> Len(ls),
          errorCount |-> errorCount,
          errorRate |-> IF Len(ls) > 0 THEN [num |-> errorCount * 100, den |-> Len(ls)]
                        ELSE Zero,
          successRate |-> successRate,
          avgDuration |-> avgDuration ]

summary == SummaryOf(filteredLogs)

\* the records with a valid time, each with whether its level is one of the
\* error levels, sorted by time
ErrorPoints(ls) ==
    LET all == [i \in DOMAIN ls |->
                    [time |-> NewDate(Get(ls[i], K_timestamp)),
                     isError |-> LET level == Get(ls[i], K_level)
                                 IN  Truthy(level) /\ toUpperCase(JsString(level)) \in errorLevels]]
        kept == SelectSeq(all, LAMBDA p : p.time.valid)
    IN  Sorted(kept, [i \in DOMAIN kept |-> <<kept[i].time.d, kept[i].time.ms>>])

\* the Map buckets in ascending order of the bucket, mapped to the result;
\* the rate is kept as the fraction num / den
ErrorBuckets(dataPoints) ==
    LET range == Elapsed(dataPoints[1].time, dataPoints[Len(dataPoints)].time)
        bucketMs == IF range < 60 * 60 * 1000 THEN 5 * 60 * 1000 ELSE 15 * 60 * 1000
        keys == {BucketOf(dataPoints[i].time, bucketMs) : i \in DOMAIN dataPoints}
        nth(r) == CHOOSE b \in keys : Cardinality({c \in keys : c < b}) = r - 1
        total(b) == Cardinality({i \in DOMAIN dataPoints :
                                     BucketOf(dataPoints[i].time, bucketMs) = b})
        errors(b) == Cardinality({i \in DOMAIN dataPoints :
                                      /\ BucketOf(dataPoints[i].time, bucketMs) = b
                                      /\ dataPoints[i].isError})
    IN  [r \in 1..Cardinality(keys) |->
            [ time |-> BucketTime(nth(r), bucketMs),
              label |-> [format |-> "hour:minute", time |-> BucketTime(nth(r), bucketMs)],
              errorRate |-> IF total(nth(r)) > 0
                            THEN [num |-> errors(nth(r)) * 100, den |-> total(nth(r))]
                            ELSE Zero,
              errorCount |-> errors(nth(r)),
              totalCount |-> total(nth(r)) ]]

\* the evolution computed from a single point as well
ErrorRateEvolutionOf_onePointEnough(ls) ==
    IF ls = <<>> \/ Len(ErrorPoints(ls)) < 1 THEN <<>>
    ELSE ErrorBuckets(ErrorPoints(ls))

ErrorRateEvolutionOf(ls) ==
    IF ls = <<>> \/ Len(ErrorPoints(ls)) < 2 THEN <<>>
    ELSE ErrorBuckets(ErrorPoints(ls))

errorRateEvolution == ErrorRateEvolutionOf(filteredLogs)

-----------------------------------------------------------------------------
(* The statistics over loads of the files above and changes of the time     *)
(* range                                                                    *)

LoadForAnalytics == \E content \in AnalyticsContents : parseLogFile(content, SearchNow)

NextAnalytics ==
    \/ LoadForAnalytics
    \/ clearLogs
    \/ SetTimeRange
    \/ clearTimeRange

SpecAnalytics == Init /\ [][NextAnalytics]_vars

-----------------------------------------------------------------------------
(* Properties of AnalyticsService, checked under SpecAnalytics             *)

\* Math.ceil(count / 30): the least n with 30 * n >= count
CeilOver30(count) == CHOOSE n \in 0..count : 30 * n >= count /\ 30 * (n - 1) < count

\* C18: the timeline returned by timelineData has at most 30 buckets for every
\* filtered record set and time range: a gap-filled series of count > 30
\* points is cut to its points at the indices that are multiples of
\* N = ceil(count / 30), and those are at most 30.
C18_TimelineAtMost30Buckets ==
    LET series == TimelineSeries(filteredLogs)
        count == Len(series)
        N == CeilOver30(count)
        multiples == {i \in 0..(count - 1) : i % N = 0}
    IN  /\ Len(timelineData) <= 30
        /\ count <= 30 => timelineData = series
        /\ count > 30 =>
               /\ Len(timelineData) = Cardinality(multiples)
               /\ \A k \in DOMAIN timelineData :
                      /\ (k - 1) * N \in multiples
                      /\ timelineData[k] = series[(k - 1) * N + 1]

\* a series of more than 30 points is cut to exactly 30
C18_Witness ==
    /\ Len(TimelineSeries(filteredLogs)) > 30
    /\ Len(timelineData) = 30
    /\ timelineData[30].time # timelineData[1].time

\* the element at index min(floor(n * 0.95), n - 1) of the values sorted
\* ascending
NearestRank95(values) ==
    LET n == Len(values)
        sorted == Sorted(values, [i \in DOMAIN values |-> <<values[i]>>])
        index == (95 * n) \div 100
    IN  sorted[(IF index < n - 1 THEN index ELSE n - 1) + 1]

\* C19: for every duration bucket with n >= 1 values, p95Duration is the
\* element at index min(floor(n * 0.95), n - 1) of the values sorted
\* ascending, whatever the values are, 0 included.
C19_P95IsNearestRank ==
    \A r \in DOMAIN durationEvolution :
        durationEvolution[r].p95Duration =
            NearestRank95(DurationBuckets(filteredLogs)[r].values)

\* the position of the entry of a level in the distribution, or 0
EntryOf(level) ==
    IF \E i \in DOMAIN levelDistribution : levelDistribution[i].level = level
    THEN CHOOSE i \in DOMAIN levelDistribution : levelDistribution[i].level = level
    ELSE 0

\* one entry per distinct upper-cased level, with the number of its records
LevelEntriesCount ==
    /\ \A i \in DOMAIN filteredLogs : EntryOf(LevelOf(filteredLogs[i])) # 0
    /\ \A i, j \in DOMAIN levelDistribution :
           levelDistribution[i].level = levelDistribution[j].level => i = j
    /\ \A i \in DOMAIN levelDistribution :
           /\ levelDistribution[i].count >= 1
           /\ levelDistribution[i].count =
                  Cardinality({k \in DOMAIN filteredLogs :
                                   LevelOf(filteredLogs[k]) = levelDistribution[i].level})
    /\ Sum([i \in DOMAIN levelDistribution |-> levelDistribution[i].count])
           = Len(filteredLogs)

\* the entries of the levels of the priority list stand in the order of the
\* list
ListedInListOrder ==
    \A a, b \in DOMAIN priority :
        (a < b /\ EntryOf(priority[a]) # 0 /\ EntryOf(priority[b]) # 0)
            => EntryOf(priority[a]) < EntryOf(priority[b])

\* C20: the level distribution has one entry per distinct upper-cased level
\* (UNKNOWN for a record without level), the counts sum to the number of
\* filtered records, the entries follow the priority list, and an ERROR entry,
\* when there is one, is the first, also among levels outside the list.
C20_LevelDistributionErrorFirst ==
    /\ LevelEntriesCount
    /\ ListedInListOrder
    /\ EntryOf(priority[1]) \in {0, 1}

\* num / den, and 0 when den is 0
Ratio(num, den) == IF den = 0 THEN Zero ELSE [num |-> num, den |-> den]

\* two fractions with positive denominators are the same number
SameNumber(a, b) == a.num * b.den = b.num * a.den

\* the filtered records whose level, upper-cased, is ERROR, FATAL or CRITICAL
ErrorRecords ==
    {i \in DOMAIN filteredLogs :
         /\ Get(filteredLogs[i], K_level).t = "str"
         /\ toUpperCase(Get(filteredLogs[i], K_level).s) \in errorLevels}

\* the filtered records whose status code is a number of at least lo, and
\* below hi when hi is not 0
StatusRecords(lo, hi) ==
    {i \in DOMAIN filteredLogs :
         /\ Get(filteredLogs[i], F_statusCode).t = "num"
         /\ Get(filteredLogs[i], F_statusCode).n >= lo
         /\ (hi = 0 \/ Get(filteredLogs[i], F_statusCode).n < hi)}

-----------------------------------------------------------------------------
(* The computed signals filteredLogs of App (the table) and of              *)
(* AnalyticsService.  A computed signal keeps its value together with the   *)
(* signals its last evaluation read, and is evaluated again by a read when  *)
(* one of them has changed since (see Notified).                            *)

\* the reads without those of the two flags
FilterReads_withoutFlags ==
    << "logs", "timeRange", "quickFilters", "searchQuery" >>

\* the signals read by an evaluation of filterLogs(logs()), in the order of
\* the reads: the flags are read only for a query that is not blank
FilterReads ==
    << "logs", "timeRange", "quickFilters", "searchQuery" >>
        \o (IF trim(searchQuery) # <<>> THEN << "isRegex", "caseSensitive" >> ELSE <<>>)

\* the values of the signals of SearchService
SearchState ==
    [searchQuery |-> searchQuery, isRegex |-> isRegex, caseSensitive |-> caseSensitive,
     quickFilters |-> quickFilters, timeRange |-> timeRange]

\* filterLogs(ls) when the signals of SearchService hold the values s: the
\* time range stage, the quick filter stage and the query stage
FilterLogsWith(s, ls) ==
    LET timed == IF Truthy(s.timeRange.start) \/ Truthy(s.timeRange.end)
                 THEN SelectSeq(ls, LAMBDA entry : inTimeRange(entry, s.timeRange))
                 ELSE ls
        quick == IF Len(s.quickFilters) > 0
                 THEN SelectSeq(timed, LAMBDA entry :
                                           passesQuickFilters(entry, s.quickFilters))
                 ELSE timed
        query == trim(s.searchQuery)
    IN  IF Len(query) > 0
        THEN IF s.isRegex
             THEN LET regex == NewRegExp(query, ~s.caseSensitive)
                  IN  IF regex.ok
                      THEN SelectSeq(quick, LAMBDA entry : matchesRegex(entry, regex))
                      ELSE quick
             ELSE LET searchLower == IF s.caseSensitive THEN query
                                     ELSE toLowerCase(query)
                  IN  SelectSeq(quick, LAMBDA entry :
                                           matchesSearch(entry, searchLower,
                                                         s.caseSensitive))
        ELSE quick

\* an evaluation of the computation of the two signals: the cell keeps the
\* records and the search state it read, which determine the value it holds
Evaluate ==
    [set |-> TRUE, from |-> [logs |-> logs, search |-> SearchState], reads |-> FilterReads]

\* the value a computed signal holds after an evaluation
ValueOf(cell) == FilterLogsWith(cell.from.search, cell.from.logs)

\* what a read of the computed signal leaves in it
ReadComputed(cell) == IF cell.set THEN cell ELSE Evaluate

\* the value a read of the computed signal returns
ReadValue(cell) == ValueOf(ReadComputed(cell))

\* the table reads App.filteredLogs
readTable ==
    /\ tableView' = ReadComputed(tableView)
    /\ UNCHANGED <<parserVars, searchVars, analyticsView, loadVars, cleared>>

\* a statistic reads AnalyticsService.filteredLogs
readAnalytics ==
    /\ analyticsView' = ReadComputed(analyticsView)
    /\ UNCHANGED <<parserVars, searchVars, tableView, loadVars, cleared>>

ViewQueries == { <<>>, Q_blank, Q_timeout, Q_pattern }
ViewFilter == SearchFilter(F_statusCode, V_404, "not_equals")

SetViewQuery == \E query \in ViewQueries : setSearchQuery(query)
AddViewFilter == addQuickFilter(ViewFilter.field, ViewFilter.value, ViewFilter.operator)
SetViewRange == setTimeRange(NewDate(Str(T_mid)), Null)

NextViews ==
    \/ LoadForSearch
    \/ clearLogs
    \/ SetViewQuery
    \/ toggleRegex
    \/ toggleCaseSensitive
    \/ AddViewFilter
    \/ clearQuickFilters
    \/ SetViewRange
    \/ clearTimeRange
    \/ clearAll
    \/ readTable
    \/ readAnalytics

SpecViews == Init /\ [][NextViews]_vars

-----------------------------------------------------------------------------
(* Properties of the computed signals, checked under SpecViews             *)

\* C22: after any sequence of loads, clears and changes of the search state,
\* a read of the filtered set of AnalyticsService and a read of the filtered
\* set of the table return the same records, which are the loaded records
\* filtered with the current search state, and summary.totalLogs is the
\* number of records of the table.
C22_AnalyticsOverVisibleSet ==
    LET table == ReadValue(tableView)
        analytics == ReadValue(analyticsView)
    IN  /\ analytics = table
        /\ table = filterLogs(logs)
        /\ SummaryOf(analytics).totalLogs = Len(table)

\* both signals hold a value that is a part of the loaded records, kept over
\* changes of the two flags that their evaluations did not read
C22_Witness ==
    /\ tableView.set
    /\ analyticsView.set
    /\ ValueOf(tableView) # <<>>
    /\ Len(ValueOf(tableView)) < Len(logs)
    /\ isRegex /\ caseSensitive /\ searchQuery = <<>>

-----------------------------------------------------------------------------
(* LogParserService.getAvailableColumns                                    *)

\* the characters from the space to the underscore in the order of their
\* code units 32 to 95, and those from a to the tilde, 97 to 126
CharsFrom32 ==
    << " ", "!", "\"", "#", "$", "%", "&", "'", "(", ")", "*", "+", ",", "-", ".", "/",
       "0", "1", "2", "3", "4", "5", "6", "7", "8", "9", ":", ";", "<", "=", ">", "?",
       "@", "A", "B", "C", "D", "E", "F", "G", "H", "I", "J", "K", "L", "M", "N", "O",
       "P", "Q", "R", "S", "T", "U", "V", "W", "X", "Y", "Z", "[", "\\", "]", "^", "_" >>

CharsFrom97 ==
    << "a", "b", "c", "d", "e", "f", "g", "h", "i", "j", "k", "l", "m", "n", "o",
       "p", "q", "r", "s", "t", "u", "v", "w", "x", "y", "z", "{", "|", "}", "~" >>

\* the code unit of a character: tab 9, line feed 10, carriage return 13
CharCode(c) ==
    CASE c = "\t" -> 9
      [] c = "\n" -> 10
      [] c = "\r" -> 13
      [] IndexIn(c, CharsFrom32) # 0 -> 31 + IndexIn(c, CharsFrom32)
      [] OTHER -> 96 + IndexIn(c, CharsFrom97)

\* the code units of a string as a tuple of length n, 0 past its end
CodeUnits(s, n) == [i \in 1..n |-> IF i <= Len(s) THEN CharCode(s[i]) ELSE 0]

\* Array.prototype.sort() of strings without a comparator: ascending by code
\* units, a prefix before the longer string
SortStrings(xs) ==
    LET n == IF xs = <<>> THEN 0
             ELSE CHOOSE m \in {Len(xs[i]) : i \in DOMAIN xs} :
                      \A i \in DOMAIN xs : Len(xs[i]) <= m
    IN  Sorted(xs, [i \in DOMAIN xs |-> CodeUnits(xs[i], n)])

priorityFields == << K_timestamp, K_level, K_message, K_id, K_index >>

\* Object.keys of every record, one record after the other
RECURSIVE KeyOccurrences(_)
KeyOccurrences(ls) ==
    IF ls = <<>> THEN <<>>
    ELSE [j \in DOMAIN Head(ls).o |-> Head(ls).o[j].k] \o KeyOccurrences(Tail(ls))

\* the elements of a Set filled from xs, in insertion order
Distinct(xs) ==
    LET kept == SelectSeq([i \in DOMAIN xs |-> i],
                          LAMBDA i : \A j \in 1..(i - 1) : xs[j] # xs[i])
    IN  [k \in DOMAIN kept |-> xs[kept[k]]]

Includes(xs, x) == \E i \in DOMAIN xs : xs[i] = x

\* getAvailableColumns without the sort of the remaining keys
AvailableColumnsOf_unsorted(ls) ==
    IF Len(ls) = 0 THEN <<>>
    ELSE LET allKeys == Distinct(KeyOccurrences(ls))
         IN  SelectSeq(priorityFields, LAMBDA f : Includes(allKeys, f))
                 \o SelectSeq(allKeys, LAMBDA k : ~Includes(priorityFields, k))

AvailableColumnsOf(ls) ==
    IF Len(ls) = 0 THEN <<>>
    ELSE LET allKeys == Distinct(KeyOccurrences(ls))
         IN  SelectSeq(priorityFields, LAMBDA f : Includes(allKeys, f))
                 \o SortStrings(SelectSeq(allKeys, LAMBDA k : ~Includes(priorityFields, k)))

getAvailableColumns == AvailableColumnsOf(logs)

-----------------------------------------------------------------------------
(* Properties of getAvailableColumns, checked under Spec                   *)

\* a before b in the order of the code units
StringLess(a, b) ==
    LET n == IF Len(a) > Len(b) THEN Len(a) ELSE Len(b)
    IN  LexLess(CodeUnits(a, n), CodeUnits(b, n))

\* C23: getAvailableColumns returns each key that occurs in a loaded record
\* exactly once: first those of @timestamp, level, message, _id, _index that
\* occur, in that order, then the remaining keys in ascending lexicographic
\* order; it returns the empty list when no records are loaded.
C23_AvailableColumns ==
    LET cols == getAvailableColumns
        rank(k) == IndexIn(k, priorityFields)
    IN  /\ \A c \in DOMAIN cols : \E i \in DOMAIN logs : Has(logs[i], cols[c])
        /\ \A i \in DOMAIN logs : \A k \in KeySet(logs[i]) : Includes(cols, k)
        /\ \A c, d \in DOMAIN cols : cols[c] = cols[d] => c = d
        /\ \A c, d \in DOMAIN cols :
               c < d =>
                   /\ rank(cols[d]) # 0 => (rank(cols[c]) # 0 /\ rank(cols[c]) < rank(cols[d]))
                   /\ (rank(cols[c]) = 0 /\ rank(cols[d]) = 0) => StringLess(cols[c], cols[d])
        /\ logs = <<>> => cols = <<>>

\* records with priority fields and other keys, a key that the first record
\* does not have among them, met in an order that is not the sorted one
C23_Witness ==
    /\ Len(logs) >= 2
    /\ \E k \in KeySet(logs[2]) : ~Has(logs[1], k)
    /\ getAvailableColumns # AvailableColumnsOf_unsorted(logs)
    /\ Len(getAvailableColumns) >= 7

-----------------------------------------------------------------------------
(* flattenObject on its own: objects of up to three levels with empty       *)
(* objects, arrays, falsy values, and keys that meet after flattening       *)

FlattenKeys == { <<"a">>, <<"b">>, <<"a",".","b">>, <<"1">> }

\* values that are no plain objects: a number, null, the empty array, and an
\* array that holds an object
FlattenLeaves ==
    { Num(1), Null, Arr(<<>>),
      Arr(<< Obj(<< Prop(<<"a">>, Obj(<< Prop(<<"b">>, Num(1)) >>)) >>) >>) }

\* the empty object and the objects with one property
OneProperty(values) ==
    {Obj(<<>>)} \cup {Obj(<< Prop(k, x) >>) : k \in FlattenKeys, x \in values}

FlattenInner == OneProperty(FlattenLeaves \cup OneProperty(FlattenLeaves))

\* the value of a second property
FlattenSecond ==
    { Num(2), Obj(<< Prop(<<"b">>, Num(2)) >>), Obj(<< Prop(<<"1">>, Num(2)) >>) }

FlattenInputs ==
    OneProperty(FlattenLeaves \cup FlattenInner)
        \cup {Obj(<< Prop(ks[1], x1), Prop(ks[2], x2) >>) :
                  ks \in {p \in FlattenKeys \X FlattenKeys : p[1] # p[2]},
                  x1 \in FlattenLeaves \cup OneProperty({Num(1)}), x2 \in FlattenSecond}

\* a call flattenObject(obj) and its result
FlattenFrame(obj) ==
    [NoFrame EXCEPT !.op = "flattenObject", !.input = obj,
                    !.result = flattenObject(obj, <<>>).v]

flattenObjectCall(obj) ==
    /\ frame' = FlattenFrame(obj)
    /\ UNCHANGED <<logs, isLoading, error, lastCall, searchVars, appVars, cleared>>

FlattenAny == \E obj \in FlattenInputs : flattenObjectCall(obj)

\* flattenObject called on the result of the last call
FlattenResult ==
    /\ frame.op = "flattenObject"
    /\ flattenObjectCall(frame.result)

NextFlatten == FlattenAny \/ FlattenResult

SpecFlatten == Init /\ [][NextFlatten]_vars

-----------------------------------------------------------------------------
(* Properties of flattenObject, checked under SpecFlatten                  *)

-----------------------------------------------------------------------------
(* Properties of the timeline, checked under SpecAnalytics                 *)

\* the instants of @timestamp of the filtered records that are valid dates
ParsableTimes ==
    LET all == [i \in DOMAIN filteredLogs |-> NewDate(Get(filteredLogs[i], K_timestamp))]
    IN  SelectSeq(all, LAMBDA d : d.valid)

\* the earliest and the latest of them
EarliestTime ==
    LET times == ParsableTimes
    IN  times[CHOOSE i \in DOMAIN times : \A j \in DOMAIN times : ~DateLt(times[j], times[i])]
LatestTime ==
    LET times == ParsableTimes
    IN  times[CHOOSE i \in DOMAIN times : \A j \in DOMAIN times : ~DateLt(times[i], times[j])]

Minute == 60 * 1000
Hour == 60 * Minute

\* the width stated for a range: a boundary value has the coarser width
StatedWidth(range) ==
    IF range < Hour THEN Minute
    ELSE IF range < 24 * Hour THEN 15 * Minute
    ELSE IF range < 7 * 24 * Hour THEN Hour
    ELSE 24 * Hour

\* the instant t lies in the bucket of the given width that begins at start
InBucket(t, start, width) == ~DateLt(t, start) /\ Elapsed(start, t) < width

\* C25: with range = max - min of the parsable timestamps, the bucket width
\* of timelineData is 1 minute if range < 1 hour, 15 minutes if range < 1 day,
\* 1 hour if range < 1 week, else 1 day; before down-sampling the series
\* holds every width-aligned bucket from the one with the earliest timestamp
\* to the one with the latest, consecutive buckets one width apart, each with
\* the number of its records, 0 for a bucket without records.
C25_TimelineWidthAndGaps ==
    LET series == TimelineSeries(filteredLogs)
        times == ParsableTimes
        earliest == EarliestTime
        latest == LatestTime
        width == StatedWidth(Elapsed(earliest, latest))
    IN  IF times = <<>> THEN series = <<>>
        ELSE /\ series # <<>>
             /\ InBucket(earliest, series[1].time, width)
             /\ InBucket(latest, series[Len(series)].time, width)
             /\ \A i \in DOMAIN series :
                    /\ series[i].time.ms % width = 0
                    /\ i < Len(series) =>
                           /\ DateLt(series[i].time, series[i + 1].time)
                           /\ Elapsed(series[i].time, series[i + 1].time) = width
                    /\ series[i].count =
                           Cardinality({k \in DOMAIN times :
                                            InBucket(times[k], series[i].time, width)})

\* a range of exactly one hour: five buckets of 15 minutes, the second empty
C25_Witness ==
    LET series == TimelineSeries(filteredLogs)
    IN  /\ Len(series) = 5
        /\ Elapsed(EarliestTime, LatestTime) = Hour
        /\ series[2].count = 0
        /\ series[1].count = 2

\* of the records whose dates are given, those with a valid date inside the
\* bucket that begins at start
RecordsInBucket(dates, among, start, width) ==
    {k \in among : dates[k].valid /\ InBucket(dates[k], start, width)}

JsonQuoted(s) == startsWith(s, <<"\"">>) /\ endsWith(s, <<"\"">>)

\* C27 as stated: a string that is not JSON-quoted and holds backslash-r or
\* a double backslash has the replacement step applied to it, so
\* unescapeString returns a string different from the one it was given.
C27_ReturnAndBackslashReplaced ==
    ( /\ UnescapeReturned
      /\ ~JsonQuoted(frame.input)
      /\ \/ includes(frame.input, <<"\\", "r">>)
         \/ includes(frame.input, <<"\\", "\\">>) )
    => frame.result # frame.input

\* C28: clearAll empties the query, the quick-filter list and both time
\* bounds, so that right after it hasActiveFilters is false and filterLogs
\* returns its input unchanged; the regex-mode and case-sensitivity flags are
\* what they were before the call.
C28_ClearAllRemovesEveryFilter ==
    cleared.done =>
        /\ searchQuery = <<>>
        /\ quickFilters = <<>>
        /\ timeRange.start = Null /\ timeRange.end = Null
        /\ ~hasActiveFilters
        /\ filterLogs(logs) = logs
        /\ isRegex = cleared.isRegex
        /\ caseSensitive = cleared.caseSensitive

\* clearAll has acted on loaded records with a filter active and regex mode
\* on
C28_Witness ==
    /\ cleared.done
    /\ cleared.active
    /\ isRegex
    /\ logs # <<>>

-----------------------------------------------------------------------------
(* The loads of the App component: handleFile starts a FileReader and      *)
(* loadSampleData a fetch; each calls parseLogFile when its read completes, *)
(* and the reads under way complete in any order                            *)

MaxRequests == 3

validTypes == { <<".","j","s","o","n">>, <<".","l","o","g">>, <<".","t","x","t">>,
                <<".","n","d","j","s","o","n">> }

\* '.' + file.name.split('.').pop()?.toLowerCase()
ExtensionOf(name) ==
    LET dots == {i \in DOMAIN name : name[i] = "."}
        last == IF dots = {} THEN 0 ELSE CHOOSE i \in dots : \A j \in dots : j <= i
    IN  <<".">> \o toLowerCase(SubSeq(name, last + 1, Len(name)))

\* the files the user picks: a.JSON, b.ndjson and c.csv
PickedFiles ==
    { [name |-> <<"a",".","J","S","O","N">>, content |-> FileDupIds],
      [name |-> <<"b",".","n","d","j","s","o","n">>, content |-> FileNdjson],
      [name |-> <<"c",".","c","s","v">>, content |-> FileText] }

\* the text served for sample-http-logs.json
SampleContent == FileHttp

\* handleFile(file): a file of another type is refused; otherwise a reader
\* is started, and handleFile returns before the file is read
handleFile(file) ==
    /\ requested.seq < MaxRequests
    /\ IF ExtensionOf(file.name) \in validTypes
       THEN /\ pending' = pending \cup {[seq |-> requested.seq + 1, kind |-> "read",
                                         content |-> file.content]}
            /\ requested' = [seq |-> requested.seq + 1, op |-> "load",
                             content |-> file.content]
       ELSE UNCHANGED loadVars
    /\ UNCHANGED <<parserVars, searchVars, viewVars, cleared>>

\* a read under way: the request it was started by and what it reads
Read(seq, kind, content) == [seq |-> seq, kind |-> kind, content |-> content]

\* reader.onload of the read started by request seq:
\* parseLogFile(content, file.name)
onload(seq, content, now) ==
    \E r \in {TryOutcome(content, now)} :
        /\ Read(seq, "read", content) \in pending
        /\ logs' = IF r.threw THEN logs ELSE r.v
        /\ error' = IF r.threw THEN r.v ELSE Null
        /\ isLoading' = FALSE
        /\ lastCall' = [op |-> "parseLogFile", content |-> content, now |-> now,
                        threw |-> r.threw]
        /\ Notify(IF r.threw THEN {} ELSE {"logs"})
        /\ pending' = pending \ {Read(seq, "read", content)}
        /\ UNCHANGED <<frame, searchVars, cleared, requested>>

\* loadSampleData up to its first await
loadSampleData ==
    /\ requested.seq < MaxRequests
    /\ pending' = pending \cup {Read(requested.seq + 1, "fetch", SampleContent)}
    /\ requested' = [seq |-> requested.seq + 1, op |-> "load", content |-> SampleContent]
    /\ UNCHANGED <<parserVars, searchVars, viewVars, cleared>>

\* loadSampleData after its awaits, for the fetch started by request seq:
\* parseLogFile(content, 'sample-http-logs.json')
loadSampleData_resumed(seq, now) ==
    \E r \in {TryOutcome(SampleContent, now)} :
        /\ Read(seq, "fetch", SampleContent) \in pending
        /\ logs' = IF r.threw THEN logs ELSE r.v
        /\ error' = IF r.threw THEN r.v ELSE Null
        /\ isLoading' = FALSE
        /\ lastCall' = [op |-> "parseLogFile", content |-> SampleContent, now |-> now,
                        threw |-> r.threw]
        /\ Notify(IF r.threw THEN {} ELSE {"logs"})
        /\ pending' = pending \ {Read(seq, "fetch", SampleContent)}
        /\ UNCHANGED <<frame, searchVars, cleared, requested>>

\* the catch block of loadSampleData, for the fetch of request seq that was
\* rejected
loadSampleData_caught(seq) ==
    /\ Read(seq, "fetch", SampleContent) \in pending
    /\ pending' = pending \ {Read(seq, "fetch", SampleContent)}
    /\ requested' = IF requested.seq = seq THEN [requested EXCEPT !.op = "failed"]
                    ELSE requested
    /\ UNCHANGED <<parserVars, searchVars, viewVars, cleared>>

\* App.clearLogs: logParser.clearLogs() and then searchService.clearAll()
AppClearLogs ==
    /\ requested.seq < MaxRequests
    /\ logs' = <<>>
    /\ error' = Null
    /\ lastCall' = NoCall("clearLogs")
    /\ searchQuery' = <<>>
    /\ quickFilters' = <<>>
    /\ timeRange' = [start |-> Null, end |-> Null]
    /\ cleared' = [done |-> TRUE, active |-> hasActiveFilters,
                   isRegex |-> isRegex, caseSensitive |-> caseSensitive]
    /\ Notify(IF searchQuery # <<>>
              THEN {"logs", "searchQuery", "quickFilters", "timeRange"}
              ELSE {"logs", "quickFilters", "timeRange"})
    /\ requested' = [seq |-> requested.seq + 1, op |-> "clear", content |-> <<>>]
    /\ UNCHANGED <<isLoading, frame, isRegex, caseSensitive, pending>>

PickFile == \E file \in PickedFiles : handleFile(file)
ReadCompletes ==
    \E seq \in 1..MaxRequests, file \in PickedFiles, now \in NowValues :
        onload(seq, file.content, now)
FetchCompletes ==
    \E seq \in 1..MaxRequests, now \in NowValues : loadSampleData_resumed(seq, now)
FetchFails == \E seq \in 1..MaxRequests : loadSampleData_caught(seq)

NextLoads ==
    \/ PickFile
    \/ ReadCompletes
    \/ loadSampleData
    \/ FetchCompletes
    \/ FetchFails
    \/ AppClearLogs

SpecLoads == Init /\ [][NextLoads]_vars

\* C29 as stated: once no read is under way, the loaded records are those of
\* the load asked for last (the last call of the parser was made with its
\* content and set the records it parsed), and there are none when the last
\* thing asked for was clearLogs.
C29_LoadedSetIsLastRequested ==
    pending = {} =>
        /\ requested.op = "load" =>
               /\ lastCall.op = "parseLogFile"
               /\ lastCall.content = requested.content
               /\ ~lastCall.threw => logs = TryOutcome(requested.content, lastCall.now).v
        /\ requested.op = "clear" => logs = <<>>

\* C30 as stated: the counts of the buckets returned by timelineData sum to
\* the number of filtered records with a parsable timestamp, every returned
\* bucket has count <= maxCount, and maxCount is the largest count among the
\* returned buckets, also when the series was down-sampled.
C30_TimelineCountsComplete ==
    LET data == timelineData
        shown == filteredLogs
        parsable == {k \in DOMAIN shown : NewDate(Get(shown[k], K_timestamp)).valid}
    IN  /\ Sum([r \in DOMAIN data |-> data[r].count]) = Cardinality(parsable)
        /\ \A r \in DOMAIN data :
               /\ data[r].count <= data[r].maxCount
               /\ \E s \in DOMAIN data : data[s].count = data[r].maxCount
=============================================================================
